---- MODULE Spec2Model ----
(***************************************************************************)
(* Model of the browser-side inference engine                              *)
(* (frontend/lib/onnx/ONNXInference.ts, frontend/lib/onnx/modelConfig.ts,  *)
(* the getRiskLevel helper of frontend/lib/utils).                         *)
(*                                                                         *)
(* Numbers.  A feature value is a record [t, v]: t = "num" is a finite     *)
(* double and v its value in units of 10^-5; t = "nan", "inf" (v = 1 for   *)
(* +Infinity, -1 for -Infinity) and "undef" (the property is absent) are   *)
(* the other values a slot of a transaction object can hold.               *)
(* Probabilities are integers in units of 10^-3.  Times are milliseconds.  *)
(*                                                                         *)
(* Asynchrony.  JavaScript runs each synchronous segment to completion,    *)
(* so an action is the code between two awaits.  A call slot p of Procs    *)
(* is one in-flight async call; pc[p] is the await it is suspended at.     *)
(*                                                                         *)
(* Beside the engine stand the client of the remote scoring service        *)
(* (frontend/lib/store/useAppStore.ts: predictWithRetry) and the           *)
(* prediction store (frontend/lib/store/usePredictionStore.ts).            *)
(***************************************************************************)
EXTENDS Integers, Sequences, FiniteSets, TLC

VARIABLES
    session,         \* this.session: 0 is null, n > 0 the session the n-th create() returned
    isModelLoaded,   \* this.isModelLoaded
    cache,           \* this.cache: the Map's entries in insertion order
    stats,           \* this.stats
    now,             \* the clock read by Date.now() and performance.now()
    pc,              \* per call slot: the await the call is suspended at
    frame,           \* per call slot: the locals of the suspended call
    creates,         \* number of ort.InferenceSession.create() invocations
    modelCalls,      \* number of session.run() invocations
    ev,              \* the last engine event: operation, arguments, outcome
    nCalls,          \* number of calls started
    nTicks,          \* number of clock advances
    client,          \* the predictWithRetry call of the API client: its locals and outcome
    store            \* the prediction store: currentPrediction, history, stats

vars == <<session, isModelLoaded, cache, stats, now, pc, frame, creates,
          modelCalls, ev, nCalls, nTicks, client, store>>

-----------------------------------------------------------------------------
(* Bounds of the exploration *)

MaxCalls == 3
MaxTicks == 1
PreFill == 99

Procs == {1, 2}

-----------------------------------------------------------------------------
(* Program constants *)

maxCacheSize == 100
maxAge == 3600000
FraudThreshold == 500
RiskLowBelow == 300
RiskMediumBelow == 700

Scale == 10 ^ 5

FEATURE_NAMES ==
    <<"Time",
      "V1", "V2", "V3", "V4", "V5", "V6", "V7", "V8", "V9", "V10",
      "V11", "V12", "V13", "V14", "V15", "V16", "V17", "V18", "V19", "V20",
      "V21", "V22", "V23", "V24", "V25", "V26", "V27", "V28",
      "Amount">>

FeatureSet == {FEATURE_NAMES[i] : i \in 1..Len(FEATURE_NAMES)}

FEATURE_VALIDATION ==
    [f \in FeatureSet |->
        IF f = "Time" THEN [min |-> -5 * Scale, max |-> 5 * Scale]
        ELSE IF f = "Amount" THEN [min |-> -5 * Scale, max |-> 10 * Scale]
        ELSE [min |-> -10 * Scale, max |-> 10 * Scale]]

-----------------------------------------------------------------------------
(* Values *)

Num(x) == [t |-> "num", v |-> x]
NaN == [t |-> "nan", v |-> 0]
PosInf == [t |-> "inf", v |-> 1]
NegInf == [t |-> "inf", v |-> -1]
Undef == [t |-> "undef", v |-> 0]

\* typeof value === 'number'
IsNumberType(x) == x.t \in {"num", "nan", "inf"}

\* isFinite(value) (NaN and the infinities are not finite)
IsFiniteNum(x) == x.t = "num"

\* value < bound, as IEEE comparison: false for NaN
LessThan(x, bound) ==
    CASE x.t = "num" -> x.v < bound
      [] x.t = "inf" -> x.v < 0
      [] OTHER -> FALSE

\* value > bound
GreaterThan(x, bound) ==
    CASE x.t = "num" -> x.v > bound
      [] x.t = "inf" -> x.v > 0
      [] OTHER -> FALSE

Abs(n) == IF n < 0 THEN -n ELSE n

\* Number.prototype.toFixed(4): the decimal string with four digits after the
\* point, the magnitude rounded to the nearest 10^-4 (ties to the larger), a
\* leading "-" for every value below zero.  The string is modelled by its sign
\* and its digits in units of 10^-4; NaN and the infinities print their names.
ToFixed4(x) ==
    CASE x.t = "num" -> [s |-> IF x.v < 0 THEN "-" ELSE "", d |-> (Abs(x.v) + 5) \div 10]
      [] x.t = "nan" -> [s |-> "NaN", d |-> 0]
      [] OTHER -> [s |-> IF x.v < 0 THEN "-Infinity" ELSE "Infinity", d |-> 0]

-----------------------------------------------------------------------------
(* Outcomes of a call: a value, an error, or still pending at an await *)

Field(f, why) == [field |-> f, why |-> why]

Ok(r) == [kind |-> "ok", name |-> "", fields |-> <<>>, value |-> <<r>>]
OkBatch(rs) == [kind |-> "okBatch", name |-> "", fields |-> <<>>, value |-> rs]
Void == [kind |-> "void", name |-> "", fields |-> <<>>, value |-> <<>>]
Pending == [kind |-> "pending", name |-> "", fields |-> <<>>, value |-> <<>>]
Err(n, fs) == [kind |-> "err", name |-> n, fields |-> fs, value |-> <<>>]

-----------------------------------------------------------------------------
(* modelConfig.ts: validateFeatureValues *)

RECURSIVE ValidationErrors(_, _)
\* the errors pushed by the forEach for the slots i..30, in order
ValidationErrors(features, i) ==
    IF i > Len(features) THEN <<>>
    ELSE LET featureName == FEATURE_NAMES[i]
             validation == FEATURE_VALIDATION[featureName]
             value == features[i]
             range == IF LessThan(value, validation.min) \/ GreaterThan(value, validation.max)
                      THEN <<Field(featureName, "range")>> ELSE <<>>
             finite == IF ~IsFiniteNum(value)
                       THEN <<Field(featureName, "invalid")>> ELSE <<>>
         IN  range \o finite \o ValidationErrors(features, i + 1)

\* a validation that stops at the first error
validateFeatureValues_FirstOnly(features) ==
    IF Len(features) # 30
    THEN [valid |-> FALSE, errors |-> <<Field("length", "count")>>]
    ELSE LET errors == ValidationErrors(features, 1)
         IN  [valid |-> errors = <<>>,
              errors |-> IF errors = <<>> THEN <<>> ELSE <<errors[1]>>]

validateFeatureValues(features) ==
    IF Len(features) # 30
    THEN [valid |-> FALSE, errors |-> <<Field("length", "count")>>]
    ELSE LET errors == ValidationErrors(features, 1)
         IN  [valid |-> errors = <<>>, errors |-> errors]

-----------------------------------------------------------------------------
(* utils: getRiskLevel, and ONNXInference.postprocess *)

getRiskLevel(fraudProbability) ==
    IF fraudProbability < RiskLowBelow THEN "Low"
    ELSE IF fraudProbability < RiskMediumBelow THEN "Medium"
    ELSE "High"

Max(a, b) == IF a >= b THEN a ELSE b

postprocess_FraudAtThreshold(probabilities) ==
    [prediction |-> IF probabilities[2] >= FraudThreshold THEN "Fraud" ELSE "Normal",
     confidence_score |-> Max(probabilities[1], probabilities[2]),
     probability_fraud |-> probabilities[2],
     probability_normal |-> probabilities[1],
     risk_level |-> getRiskLevel(probabilities[2])]

postprocess_NormalFromConfidence(probabilities) ==
    [prediction |-> IF probabilities[2] > FraudThreshold THEN "Fraud" ELSE "Normal",
     confidence_score |-> Max(probabilities[1], probabilities[2]),
     probability_fraud |-> probabilities[2],
     probability_normal |-> Max(probabilities[1], probabilities[2]),
     risk_level |-> getRiskLevel(probabilities[2])]

\* probabilities = <<P(Normal), P(Fraud)>>
postprocess(probabilities) ==
    LET probNormal == probabilities[1]
        probFraud == probabilities[2]
    IN  [prediction |-> IF probFraud > FraudThreshold THEN "Fraud" ELSE "Normal",
         confidence_score |-> Max(probNormal, probFraud),
         probability_fraud |-> probFraud,
         probability_normal |-> probNormal,
         risk_level |-> getRiskLevel(probFraud)]

-----------------------------------------------------------------------------
(* ONNXInference: transactionToFeatures, getCacheKey, getFromCache, addToCache *)

RECURSIVE FirstNonNumber(_, _)
\* the first feature name, from position i on, whose value is no number; "" if none
FirstNonNumber(transaction, i) ==
    IF i > Len(FEATURE_NAMES) THEN ""
    ELSE IF ~IsNumberType(transaction[FEATURE_NAMES[i]]) THEN FEATURE_NAMES[i]
    ELSE FirstNonNumber(transaction, i + 1)

\* [throws, featureName, features]
transactionToFeatures(transaction) ==
    LET bad == FirstNonNumber(transaction, 1)
    IN  IF bad # ""
        THEN [throws |-> TRUE, featureName |-> bad, features |-> <<>>]
        ELSE [throws |-> FALSE, featureName |-> "",
              features |-> [i \in 1..Len(FEATURE_NAMES) |-> transaction[FEATURE_NAMES[i]]]]

KeyFeatures == <<"Time", "V1", "V2", "Amount">>

\* v.toFixed(4) on a value that is no number throws a TypeError
getCacheKeyThrows(transaction) ==
    \E i \in 1..Len(KeyFeatures) : ~IsNumberType(transaction[KeyFeatures[i]])

getCacheKey(transaction) ==
    [i \in 1..Len(KeyFeatures) |-> ToFixed4(transaction[KeyFeatures[i]])]

\* position of the entry stored under key, 0 if there is none
CacheIndex(c, key) ==
    IF \E i \in 1..Len(c) : c[i].input = key
    THEN CHOOSE i \in 1..Len(c) : c[i].input = key
    ELSE 0

\* this.cache.delete(key)
CacheDelete(c, key) ==
    LET i == CacheIndex(c, key)
    IN  IF i = 0 THEN c ELSE SubSeq(c, 1, i - 1) \o SubSeq(c, i + 1, Len(c))

\* this.cache.set(key, entry): an existing key keeps its place in the order
CacheSet(c, key, entry) ==
    LET i == CacheIndex(c, key)
    IN  IF i = 0 THEN Append(c, entry) ELSE [c EXCEPT ![i] = entry]

Expired_AtMaxAge(t, timestamp) == t - timestamp >= maxAge

\* Date.now() - entry.timestamp > maxAge
Expired(t, timestamp) == t - timestamp > maxAge

\* a lookup that renews the timestamp of the entry it serves
getFromCache_Refreshing(c, transaction, t) ==
    LET key == getCacheKey(transaction)
        i == CacheIndex(c, key)
    IN  IF i = 0 THEN [cache |-> c, found |-> <<>>]
        ELSE IF Expired(t, c[i].timestamp)
             THEN [cache |-> CacheDelete(c, key), found |-> <<>>]
             ELSE [cache |-> [c EXCEPT ![i].timestamp = t], found |-> <<c[i].result>>]

\* [cache, found]: found is <<>> for null, <<result>> for a served entry
getFromCache(c, transaction, t) ==
    LET key == getCacheKey(transaction)
        i == CacheIndex(c, key)
    IN  IF i = 0 THEN [cache |-> c, found |-> <<>>]
        ELSE IF Expired(t, c[i].timestamp)
             THEN [cache |-> CacheDelete(c, key), found |-> <<>>]
             ELSE [cache |-> c, found |-> <<c[i].result>>]

CacheFull_OffByOne(c) == Len(c) > maxCacheSize

\* this.cache.size >= this.maxCacheSize
CacheFull(c) == Len(c) >= maxCacheSize

addToCache(c, transaction, result, t) ==
    LET c1 == IF CacheFull(c) /\ Len(c) > 0 THEN Tail(c) ELSE c
        key == getCacheKey(transaction)
    IN  CacheSet(c1, key, [input |-> key, result |-> result, timestamp |-> t])

-----------------------------------------------------------------------------
(* Inputs *)

Base == [f \in FeatureSet |-> Num(0)]

Lacking(f) == [Base EXCEPT ![f] = Undef]

\* The transaction objects the callers pass, by name.  The state holds the
\* name; Vector(name) is the object.
\*   A, B, C      valid vectors with three different cache keys
\*   A2, A3       valid vectors that share A's cache key: V1 differs below the
\*                fourth decimal; a slot outside the key differs
\*   no<Slot>     A without that slot: the four key slots and the first and
\*                last slot outside the key
\*   bad<...>     A with slots out of range or not finite
\*   none         no transaction (the events of the other operations)
TxTable ==
    [A |-> Base,
     B |-> [Base EXCEPT !["V1"] = Num(Scale)],
     C |-> [Base EXCEPT !["V2"] = Num(Scale)],
     A2 |-> [Base EXCEPT !["V1"] = Num(4)],
     A3 |-> [Base EXCEPT !["V3"] = Num(Scale)],
     noTime |-> Lacking("Time"),
     noV1 |-> Lacking("V1"),
     noV2 |-> Lacking("V2"),
     noV3 |-> Lacking("V3"),
     noV28 |-> Lacking("V28"),
     noAmount |-> Lacking("Amount"),
     badTime |-> [Base EXCEPT !["Time"] = Num(6 * Scale)],
     badV3 |-> [Base EXCEPT !["V3"] = Num(11 * Scale)],
     badV3V28 |-> [Base EXCEPT !["V3"] = Num(11 * Scale), !["V28"] = Num(-11 * Scale)],
     nanV3 |-> [Base EXCEPT !["V3"] = NaN],
     infV28 |-> [Base EXCEPT !["V28"] = PosInf],
     badAmount |-> [Base EXCEPT !["Amount"] = Num(11 * Scale)],
     lacking3 |-> [Base EXCEPT !["V3"] = Undef, !["V4"] = Undef, !["V28"] = NaN],
     none |-> [f \in FeatureSet |-> Undef]]

Vector(name) == TxTable[name]

NoTx == "none"

Txs == {"A", "B"}

AllTxs == DOMAIN TxTable \ {"none", "C", "lacking3"}

WarmTxs == {"A", "B", "C"}

DefaultOptions == [useCache |-> TRUE, returnTimings |-> FALSE]
Options == {DefaultOptions, [useCache |-> FALSE, returnTimings |-> TRUE]}

Batches == {<<>>, <<"A", "A">>, <<"A", "B">>, <<"noV3", "A">>}

\* the batch of the runs with the wide family of inputs
InputBatches == {<<"A">>}

WarmBatches == {<<"B">>}

\* what the model can answer: <<P(Normal), P(Fraud)>> in units of 10^-3
ModelOutputs == {<<950, 50>>, <<100, 900>>}

ModelReplies ==
    {[fails |-> TRUE, probabilities |-> <<0, 0>>]}
        \cup {[fails |-> FALSE, probabilities |-> o] : o \in ModelOutputs}

TickSteps == {maxAge, maxAge + 1}

-----------------------------------------------------------------------------
(* ONNXInference.predict, cut at its one await (runInference's session.run) *)

ModelReady_Unchecked(loaded, sess) == TRUE

\* the guard of predict: this.isModelLoaded && this.session
ModelReady(loaded, sess) == loaded /\ sess # 0

\* predict from its entry to its first return, throw or await.
\* [out, cache, stats]: out is Pending when the call reached session.run.
PredictSync(transaction, options, c, st, t, loaded, sess) ==
    IF ~ModelReady(loaded, sess)
    THEN [out |-> Err("MODEL_NOT_LOADED", <<>>), cache |-> c, stats |-> st]
    ELSE IF options.useCache /\ getCacheKeyThrows(transaction)
    THEN [out |-> Err("TypeError", <<>>), cache |-> c, stats |-> st]
    ELSE
      LET looked == IF options.useCache THEN getFromCache(c, transaction, t)
                    ELSE [cache |-> c, found |-> <<>>]
      IN  IF looked.found # <<>>
          THEN [out |-> Ok([looked.found[1] EXCEPT !.cached = TRUE]),
                cache |-> looked.cache,
                stats |-> [st EXCEPT !.cacheHits = @ + 1]]
          ELSE
            LET st1 == [st EXCEPT !.cacheMisses = @ + 1]
                conv == transactionToFeatures(transaction)
                validation == validateFeatureValues(conv.features)
            IN  IF conv.throws
                THEN [out |-> Err("MISSING_OR_INVALID_FEATURE",
                                  <<Field(conv.featureName, "missing")>>),
                      cache |-> looked.cache, stats |-> st1]
                ELSE IF ~validation.valid
                THEN [out |-> Err("INVALID_INPUT_VALUES", validation.errors),
                      cache |-> looked.cache, stats |-> st1]
                ELSE [out |-> Pending, cache |-> looked.cache, stats |-> st1]

PredictFinish_CountingFailures(fr, reply, c, st, t, sess) ==
    [out |-> Err("INFERENCE_FAILED", <<>>), cache |-> c,
     stats |-> [st EXCEPT !.totalPredictions = @ + 1]]

\* predict from the settling of session.run to its return or throw.
\* reply is what session.run settled with; fr holds the locals of the call.
PredictFinish(fr, reply, c, st, t, sess) ==
    IF reply.fails \/ sess = 0
    THEN [out |-> Err("INFERENCE_FAILED", <<>>), cache |-> c, stats |-> st]
    ELSE
      LET inferenceTime == t - fr.inferenceStart
          totalTime == t - fr.startTime
          result == postprocess(reply.probabilities)
          inferenceResult ==
              [prediction |-> result.prediction,
               confidence_score |-> result.confidence_score,
               probability_fraud |-> result.probability_fraud,
               probability_normal |-> result.probability_normal,
               risk_level |-> result.risk_level,
               processing_time_ms |-> totalTime,
               model_version |-> "1.0.0",
               cached |-> FALSE,
               timings |-> IF fr.options.returnTimings
                           THEN <<[preprocessMs |-> fr.preprocessTime,
                                   inferenceMs |-> inferenceTime,
                                   postprocessMs |-> 0,
                                   totalMs |-> totalTime]>>
                           ELSE <<>>]
      IN  [out |-> Ok(inferenceResult),
           cache |-> IF fr.options.useCache
                     THEN addToCache(c, Vector(fr.transaction), inferenceResult, t)
                     ELSE c,
           stats |-> [st EXCEPT !.totalPredictions = @ + 1,
                                !.totalInferenceTime = @ + inferenceTime]]

\* ONNXInference.getStats; a rate is the pair <<numerator, denominator>>, <<0, 1>> for 0
getStats ==
    [totalPredictions |-> stats.totalPredictions,
     avgInferenceTime |-> IF stats.totalPredictions > 0
                          THEN <<stats.totalInferenceTime, stats.totalPredictions>>
                          ELSE <<0, 1>>,
     cacheHitRate |-> IF stats.cacheHits + stats.cacheMisses > 0
                      THEN <<stats.cacheHits, stats.cacheHits + stats.cacheMisses>>
                      ELSE <<0, 1>>,
     cacheSize |-> Len(cache)]

\* ONNXInference.isLoaded
isLoaded == isModelLoaded

-----------------------------------------------------------------------------
(* State *)

\* the locals of a call; disposed records that dispose() cleared the engine
\* while the call was waiting at `await this.session.run(feeds)`
IdleFrame ==
    [transaction |-> NoTx, options |-> DefaultOptions, startTime |-> 0,
     preprocessTime |-> 0, inferenceStart |-> 0,
     transactions |-> <<>>, index |-> 0, results |-> <<>>, settled |-> Void,
     attempt |-> 0, disposed |-> FALSE]

InitStats == [totalPredictions |-> 0, totalInferenceTime |-> 0,
              cacheHits |-> 0, cacheMisses |-> 0]

\* <<[op, result]>> when the event e is a predict call (made by a caller or
\* by predictBatch, op) that returned result for `transaction` with the cache
\* enabled, <<>> otherwise
Returned(e, transaction) ==
    IF /\ e.op \in {"predict", "predictBatch"}
       /\ e.itemOut.kind = "ok"
       /\ e.options.useCache
       /\ e.transaction = transaction
    THEN <<[op |-> e.op, result |-> e.itemOut.value[1]]>>
    ELSE <<>>

\* what getFromCache finds for the transaction in the current state: "none"
\* when predict does not get to the lookup
LookupKind(transaction, options) ==
    LET v == Vector(transaction)
        i == CacheIndex(cache, getCacheKey(v))
    IN  IF \/ transaction = NoTx
           \/ ~ModelReady(isModelLoaded, session)
           \/ ~options.useCache
           \/ getCacheKeyThrows(v)
        THEN "none"
        ELSE IF i = 0 THEN "absent"
        ELSE IF Expired(now, cache[i].timestamp) THEN "expired"
        ELSE "hit"

\* the event record of the step being taken
\* (itemOut: the outcome of the predict call this event is part of; out: the
\* outcome of the caller's call; prev: what the event before returned for the
\* same vector, see Returned; lookup: see LookupKind)
Event(op, phase, p, transaction, options, transactions, index, itemOut, out) ==
    [op |-> op, phase |-> phase, p |-> p, transaction |-> transaction,
     options |-> options, transactions |-> transactions, index |-> index,
     itemOut |-> itemOut, out |-> out, prev |-> Returned(ev, transaction),
     lookup |-> IF phase = "settle" THEN "none" ELSE LookupKind(transaction, options)]

SimpleEvent(op, phase, p, out) ==
    Event(op, phase, p, NoTx, DefaultOptions, <<>>, 0, out, out)

\* the vector of the i-th entry a warmed-up engine holds: key slot Time = i/100
WarmTx(i) == [Base EXCEPT !["Time"] = Num(i * 1000)]

\* the result of a prediction of transaction `name` answered at once with <<950, 50>>
WarmResultOf(name) ==
    PredictFinish([IdleFrame EXCEPT !.transaction = name],
                  [fails |-> FALSE, probabilities |-> <<950, 50>>],
                  <<>>, InitStats, 0, 1).out.value[1]

WarmResult == WarmResultOf("A")

WarmCache ==
    [i \in 1..PreFill |->
        [input |-> getCacheKey(WarmTx(i)), result |-> WarmResult, timestamp |-> 0]]

\* FraudDetectionApiClient: no predictWithRetry call made yet
InitClient ==
    [pc |-> "idle", maxAttempts |-> 0, attempt |-> 0, lastError |-> <<>>,
     failure |-> <<>>, calls |-> 0, slept |-> <<>>, out |-> Void]

\* usePredictionStore: initialStats
initialStats ==
    [totalPredictions |-> 0, fraudDetected |-> 0, normalDetected |-> 0,
     riskDistribution |-> [Low |-> Num(0), Medium |-> Num(0), High |-> Num(0)]]

\* usePredictionStore: the state the store is created with
InitStore ==
    [currentPrediction |-> <<>>, history |-> <<>>, stats |-> initialStats,
     added |-> 0, removed |-> 0]

InitEvent ==
    [op |-> "new", phase |-> "call", p |-> 0, transaction |-> NoTx,
     options |-> DefaultOptions, transactions |-> <<>>, index |-> 0,
     itemOut |-> Void, out |-> Void, prev |-> <<>>, lookup |-> "none"]

\* the engine as constructed
Init ==
    /\ session = 0
    /\ isModelLoaded = FALSE
    /\ cache = <<>>
    /\ stats = InitStats
    /\ creates = 0
    /\ modelCalls = 0
    /\ now = 0
    /\ pc = [p \in Procs |-> "idle"]
    /\ frame = [p \in Procs |-> IdleFrame]
    /\ ev = InitEvent
    /\ nCalls = 0
    /\ nTicks = 0
    /\ client = InitClient
    /\ store = InitStore

\* the engine after loadModel and PreFill predictions of the vectors
\* WarmTx(1..PreFill), each answered within the same millisecond
InitWarm ==
    /\ session = 1
    /\ isModelLoaded = TRUE
    /\ cache = WarmCache
    /\ stats = [totalPredictions |-> PreFill, totalInferenceTime |-> 0,
                cacheHits |-> 0, cacheMisses |-> PreFill]
    /\ creates = 1
    /\ modelCalls = PreFill
    /\ now = 0
    /\ pc = [p \in Procs |-> "idle"]
    /\ frame = [p \in Procs |-> IdleFrame]
    /\ ev = InitEvent
    /\ nCalls = 0
    /\ nTicks = 0
    /\ client = InitClient
    /\ store = InitStore

-----------------------------------------------------------------------------
(* Actions: one per synchronous segment of a method *)

\* a new call takes the lowest free call slot
CanCall(p) ==
    /\ pc[p] = "idle"
    /\ \A q \in Procs : q < p => pc[q] # "idle"
    /\ nCalls < MaxCalls

\* loadModel() up to `await ort.InferenceSession.create(...)`
loadModel(p) ==
    /\ CanCall(p)
    /\ nCalls' = nCalls + 1
    /\ IF isModelLoaded
       THEN /\ ev' = SimpleEvent("loadModel", "call", p, Void)
            /\ UNCHANGED <<pc, frame, creates>>
       ELSE /\ creates' = creates + 1
            /\ pc' = [pc EXCEPT ![p] = "load"]
            /\ frame' = [frame EXCEPT ![p] = [IdleFrame EXCEPT !.attempt = creates + 1]]
            /\ ev' = SimpleEvent("loadModel", "call", p, Pending)
    /\ UNCHANGED <<session, isModelLoaded, cache, stats, now, modelCalls, nTicks, client, store>>

\* loadModel() from the settling of create(): the session, or the rethrown error
loadModelSettle(p, created) ==
    /\ pc[p] = "load"
    /\ pc' = [pc EXCEPT ![p] = "idle"]
    /\ frame' = [frame EXCEPT ![p] = IdleFrame]
    /\ IF created
       THEN /\ session' = frame[p].attempt
            /\ isModelLoaded' = TRUE
            /\ ev' = SimpleEvent("loadModel", "settle", p, Void)
       ELSE /\ ev' = SimpleEvent("loadModel", "settle", p, Err("MODEL_LOAD_FAILED", <<>>))
            /\ UNCHANGED <<session, isModelLoaded>>
    /\ UNCHANGED <<cache, stats, now, creates, modelCalls, nCalls, nTicks, client, store>>

\* predict(transaction, options) up to its return, throw, or `await this.runInference`
predict(p, transaction, options) ==
    /\ CanCall(p)
    /\ nCalls' = nCalls + 1
    /\ LET r == PredictSync(Vector(transaction), options, cache, stats, now,
                                isModelLoaded, session)
       IN  /\ cache' = r.cache
           /\ stats' = r.stats
           /\ ev' = Event("predict", "call", p, transaction, options, <<>>, 0, r.out, r.out)
           /\ IF r.out = Pending
              THEN /\ modelCalls' = modelCalls + 1
                   /\ pc' = [pc EXCEPT ![p] = "predict"]
                   /\ frame' = [frame EXCEPT ![p] =
                                  [IdleFrame EXCEPT !.transaction = transaction,
                                                    !.options = options,
                                                    !.startTime = now,
                                                    !.inferenceStart = now]]
              ELSE UNCHANGED <<modelCalls, pc, frame>>
    /\ UNCHANGED <<session, isModelLoaded, now, creates, nTicks, client, store>>

\* predict from the settling of session.run to its return or throw
predictSettle(p, reply) ==
    /\ pc[p] = "predict"
    /\ LET r == PredictFinish(frame[p], reply, cache, stats, now, session)
       IN  /\ cache' = r.cache
           /\ stats' = r.stats
           /\ ev' = Event("predict", "settle", p, frame[p].transaction, frame[p].options,
                          <<>>, 0, r.out, r.out)
    /\ pc' = [pc EXCEPT ![p] = "idle"]
    /\ frame' = [frame EXCEPT ![p] = IdleFrame]
    /\ UNCHANGED <<session, isModelLoaded, now, creates, modelCalls, nCalls, nTicks, client, store>>

ItemOptions_Dropped(options) == DefaultOptions

\* the options predictBatch hands to predict: its own
ItemOptions(options) == options

\* One turn of predictBatch's loop: `this.predict(transactions[i], options)` is
\* entered; the loop then waits at `await` for that call, which has settled
\* already (pc "batchSettled") or is itself waiting for session.run ("batchRun").
BatchEnter(p, op, phase, transactions, options, i, results) ==
    LET r == PredictSync(Vector(transactions[i]), ItemOptions(options), cache, stats, now,
                         isModelLoaded, session)
    IN  /\ cache' = r.cache
        /\ stats' = r.stats
        /\ ev' = Event(op, phase, p, transactions[i], options, transactions, i, r.out, Pending)
        /\ modelCalls' = IF r.out = Pending THEN modelCalls + 1 ELSE modelCalls
        /\ pc' = [pc EXCEPT ![p] = IF r.out = Pending THEN "batchRun" ELSE "batchSettled"]
        /\ frame' = [frame EXCEPT ![p] =
                       [IdleFrame EXCEPT !.transaction = transactions[i],
                                         !.options = ItemOptions(options),
                                         !.startTime = now,
                                         !.inferenceStart = now,
                                         !.transactions = transactions,
                                         !.index = i,
                                         !.results = results,
                                         !.settled = r.out]]

\* predictBatch(transactions, options) up to its return or first await
predictBatch(p, transactions, options) ==
    /\ CanCall(p)
    /\ nCalls' = nCalls + 1
    /\ IF transactions = <<>>
       THEN /\ ev' = Event("predictBatch", "call", p, NoTx, options, transactions, 0,
                           Void, OkBatch(<<>>))
            /\ UNCHANGED <<cache, stats, modelCalls, pc, frame>>
       ELSE BatchEnter(p, "predictBatch", "call", transactions, options, 1, <<>>)
    /\ UNCHANGED <<session, isModelLoaded, now, creates, nTicks, client, store>>

\* the predict call of the current item, from the settling of session.run
predictBatchSettle(p, reply) ==
    /\ pc[p] = "batchRun"
    /\ LET r == PredictFinish(frame[p], reply, cache, stats, now, session)
       IN  /\ cache' = r.cache
           /\ stats' = r.stats
           /\ ev' = Event("predictBatch", "settle", p, frame[p].transaction,
                          frame[p].options, frame[p].transactions, frame[p].index,
                          r.out, Pending)
           /\ frame' = [frame EXCEPT ![p].settled = r.out]
    /\ pc' = [pc EXCEPT ![p] = "batchSettled"]
    /\ UNCHANGED <<session, isModelLoaded, now, creates, modelCalls, nCalls, nTicks, client, store>>

predictBatchNext_SkippingFailures(p) ==
    /\ pc[p] = "batchSettled"
    /\ LET fr == frame[p]
           results == IF fr.settled.kind = "err"
                      THEN fr.results
                      ELSE fr.results \o fr.settled.value
       IN  IF fr.index = Len(fr.transactions)
           THEN /\ ev' = Event("predictBatch", "next", p, NoTx, fr.options,
                               fr.transactions, fr.index, Void, OkBatch(results))
                /\ pc' = [pc EXCEPT ![p] = "idle"]
                /\ frame' = [frame EXCEPT ![p] = IdleFrame]
                /\ UNCHANGED <<cache, stats, modelCalls>>
           ELSE BatchEnter(p, "predictBatch", "next", fr.transactions, fr.options,
                           fr.index + 1, results)
    /\ UNCHANGED <<session, isModelLoaded, now, creates, nCalls, nTicks, client, store>>

\* predictBatch resumed with the settled predict call of the current item:
\* rethrow its error, or push its result and go on with the next item or return
predictBatchNext(p) ==
    /\ pc[p] = "batchSettled"
    /\ LET fr == frame[p]
           results == fr.results \o fr.settled.value
       IN  IF fr.settled.kind = "err"
           THEN /\ ev' = Event("predictBatch", "next", p, NoTx, fr.options,
                               fr.transactions, fr.index, Void, fr.settled)
                /\ pc' = [pc EXCEPT ![p] = "idle"]
                /\ frame' = [frame EXCEPT ![p] = IdleFrame]
                /\ UNCHANGED <<cache, stats, modelCalls>>
           ELSE IF fr.index = Len(fr.transactions)
           THEN /\ ev' = Event("predictBatch", "next", p, NoTx, fr.options,
                               fr.transactions, fr.index, Void, OkBatch(results))
                /\ pc' = [pc EXCEPT ![p] = "idle"]
                /\ frame' = [frame EXCEPT ![p] = IdleFrame]
                /\ UNCHANGED <<cache, stats, modelCalls>>
           ELSE BatchEnter(p, "predictBatch", "next", fr.transactions, fr.options,
                           fr.index + 1, results)
    /\ UNCHANGED <<session, isModelLoaded, now, creates, nCalls, nTicks, client, store>>

clearCache ==
    /\ nCalls < MaxCalls
    /\ nCalls' = nCalls + 1
    /\ cache' = <<>>
    /\ ev' = SimpleEvent("clearCache", "call", 0, Void)
    /\ UNCHANGED <<session, isModelLoaded, stats, now, pc, frame, creates, modelCalls, nTicks, client, store>>

resetStats ==
    /\ nCalls < MaxCalls
    /\ nCalls' = nCalls + 1
    /\ stats' = InitStats
    /\ ev' = SimpleEvent("resetStats", "call", 0, Void)
    /\ UNCHANGED <<session, isModelLoaded, cache, now, pc, frame, creates, modelCalls, nTicks, client, store>>

dispose ==
    /\ nCalls < MaxCalls
    /\ nCalls' = nCalls + 1
    /\ IF session # 0
       THEN /\ session' = 0
            /\ isModelLoaded' = FALSE
            /\ cache' = <<>>
            /\ frame' = [p \in Procs |->
                            IF pc[p] \in {"predict", "batchRun"}
                            THEN [frame[p] EXCEPT !.disposed = TRUE]
                            ELSE frame[p]]
       ELSE UNCHANGED <<session, isModelLoaded, cache, frame>>
    /\ ev' = SimpleEvent("dispose", "call", 0, Void)
    /\ UNCHANGED <<stats, now, pc, creates, modelCalls, nTicks, client, store>>

\* the clock advances
Tick(d) ==
    /\ nTicks < MaxTicks
    /\ nTicks' = nTicks + 1
    /\ now' = now + d
    /\ UNCHANGED <<session, isModelLoaded, cache, stats, pc, frame, creates, modelCalls,
                   ev, nCalls, client, store>>

\* the engine driven with transactions of T, options of O, batches of B
Engine(T, O, B) ==
    \/ \E p \in Procs : loadModel(p)
    \/ \E p \in Procs, created \in BOOLEAN : loadModelSettle(p, created)
    \/ \E p \in Procs, transaction \in T, options \in O :
          predict(p, transaction, options)
    \/ \E p \in Procs, reply \in ModelReplies : predictSettle(p, reply)
    \/ \E p \in Procs, transactions \in B, options \in O :
          predictBatch(p, transactions, options)
    \/ \E p \in Procs, reply \in ModelReplies : predictBatchSettle(p, reply)
    \/ \E p \in Procs : predictBatchNext(p)
    \/ clearCache
    \/ resetStats
    \/ dispose

\* The engine with a running clock, from construction.
Next ==
    \/ Engine(Txs, Options, Batches)
    \/ \E d \in TickSteps : Tick(d)

Spec == Init /\ [][Next]_vars

\* The engine from construction, driven with the wide family of inputs while
\* the clock stands still.
NextInputs == Engine(AllTxs, Options, InputBatches)

SpecInputs == Init /\ [][NextInputs]_vars

\* The engine from the warmed-up state, the cache just below capacity.
NextWarm == Engine(WarmTxs, {DefaultOptions}, WarmBatches)

SpecWarm == InitWarm /\ [][NextWarm]_vars

-----------------------------------------------------------------------------
(* Vocabulary of the properties *)

\* the step is an engine event (the clock step leaves ev as it is)
EngineStep == nTicks' = nTicks

\* the event is the entry of a predict call, made by a caller or by predictBatch
EntersPredict(e) ==
    \/ e.op = "predict" /\ e.phase = "call"
    \/ e.op = "predictBatch" /\ e.phase \in {"call", "next"} /\ e.transaction # NoTx

KeyOf(transaction) == getCacheKey(Vector(transaction))

KeysOf(c) == {c[i].input : i \in 1..Len(c)}

\* age of the entry stored under the transaction's key, -1 if there is none
AgeOf(transaction) ==
    LET i == CacheIndex(cache, KeyOf(transaction))
    IN  IF i = 0 THEN -1 ELSE now - cache[i].timestamp

MissingSlots(transaction) ==
    {f \in FeatureSet : Vector(transaction)[f].t = "undef"}

\* the acceptable range of a slot, as the specification states it
StatedRange(f) ==
    IF f = "Time" THEN <<-5 * Scale, 5 * Scale>>
    ELSE IF f = "Amount" THEN <<-5 * Scale, 10 * Scale>>
    ELSE <<-10 * Scale, 10 * Scale>>

\* the slots whose value is not finite or lies outside the stated range
Offending(transaction) ==
    {f \in FeatureSet :
        LET x == Vector(transaction)[f]
        IN  \/ x.t # "num"
            \/ x.v < StatedRange(f)[1]
            \/ x.v > StatedRange(f)[2]}

\* predict gets as far as the cache lookup
ReachesLookup(transaction, options) ==
    /\ isModelLoaded
    /\ options.useCache
    /\ ~getCacheKeyThrows(Vector(transaction))

-----------------------------------------------------------------------------
(* C1: on a Ready engine, when predict(v) with the cache enabled has         *)
(* succeeded and the very next engine event is predict(v) with the cache     *)
(* enabled, made while the entry of v is at most one hour old, the second    *)
(* call returns cached = true with the label and probability_fraud of the    *)
(* first and invokes the model no further time.                              *)
C1_RepeatIsServedFromCache ==
    [][(/\ EngineStep
        /\ ev'.op = "predict" /\ ev'.phase = "call" /\ ev'.options.useCache
        /\ ev'.prev # <<>> /\ ev'.prev[1].op = "predict")
       => /\ AgeOf(ev'.transaction) >= 0
          /\ AgeOf(ev'.transaction) <= 3600000
                => /\ ev'.out.kind = "ok"
                   /\ ev'.out.value[1].cached
                   /\ ev'.out.value[1].prediction = ev'.prev[1].result.prediction
                   /\ ev'.out.value[1].probability_fraud
                          = ev'.prev[1].result.probability_fraud
                   /\ modelCalls' = modelCalls]_vars

\* the repeat arrives exactly one hour after the first call and is served
C1_Witness ==
    /\ ev.op = "predict" /\ ev.phase = "call"
    /\ ev.prev # <<>> /\ ev.prev[1].op = "predict"
    /\ ev.out.kind = "ok" /\ ev.out.value[1].cached
    /\ ~ev.prev[1].result.cached
    /\ now = 3600000
    /\ AgeOf(ev.transaction) = 3600000

-----------------------------------------------------------------------------
(* C2: in every state of a loaded engine, predict on a vector that lacks     *)
(* exactly one of the 30 named slots fails with an error that names the      *)
(* missing slot, returns no prediction and does not invoke the model.        *)
C2_LackingSlotIsNamed ==
    [][(/\ EngineStep
        /\ ev'.op = "predict" /\ ev'.phase = "call"
        /\ isModelLoaded
        /\ Cardinality(MissingSlots(ev'.transaction)) = 1)
       => /\ ev'.out.kind = "err"
          /\ {ev'.out.fields[i].field : i \in 1..Len(ev'.out.fields)}
                = MissingSlots(ev'.transaction)
          /\ modelCalls' = modelCalls]_vars

\* a vector lacking the slot V3 is answered from the cache
C2_Witness ==
    /\ ev.op = "predict" /\ ev.phase = "call"
    /\ MissingSlots(ev.transaction) = {"V3"}
    /\ ev.out.kind = "ok"
    /\ ev.out.value[1].cached

-----------------------------------------------------------------------------
(* C3: predict called while the model is not loaded (never loaded, load in   *)
(* progress, load failed, disposed) fails with the model-not-loaded error,   *)
(* starts no load, invokes no model and leaves the cache and the four        *)
(* counters unchanged.                                                       *)
C3_NotLoadedIsRejected ==
    [][(/\ EngineStep
        /\ ev'.op = "predict" /\ ev'.phase = "call"
        /\ ~isModelLoaded)
       => /\ ev'.out = Err("MODEL_NOT_LOADED", <<>>)
          /\ creates' = creates
          /\ modelCalls' = modelCalls
          /\ cache' = cache
          /\ stats' = stats
          /\ session' = session /\ isModelLoaded' = isModelLoaded
          /\ pc' = pc]_vars

\* a predict rejected while a load is in progress, on an engine that was
\* loaded and disposed before
C3_Witness ==
    /\ ev.op = "predict" /\ ev.phase = "call"
    /\ ev.out = Err("MODEL_NOT_LOADED", <<>>)
    /\ \E q \in Procs : pc[q] = "load"
    /\ creates = 2

-----------------------------------------------------------------------------
(* C4: on a cache miss, a vector of 30 numbers of which some are outside     *)
(* their range (Time [-5,5], Amount [-5,10], V1..V28 [-10,10]) or not finite *)
(* makes predict fail with an error that lists every offending field; no     *)
(* value is clamped (no result is returned), the model is not invoked and no *)
(* entry is inserted into the cache.                                         *)
C4_OutOfRangeListsEveryField ==
    [][(/\ EngineStep
        /\ ev'.op = "predict" /\ ev'.phase = "call"
        /\ isModelLoaded
        /\ MissingSlots(ev'.transaction) = {}
        /\ Offending(ev'.transaction) # {}
        /\ ~(/\ ReachesLookup(ev'.transaction, ev'.options)
             /\ AgeOf(ev'.transaction) >= 0
             /\ AgeOf(ev'.transaction) <= 3600000))
       => /\ ev'.out.kind = "err"
          /\ ev'.out.name = "INVALID_INPUT_VALUES"
          /\ {ev'.out.fields[i].field : i \in 1..Len(ev'.out.fields)}
                = Offending(ev'.transaction)
          /\ modelCalls' = modelCalls
          /\ KeysOf(cache') \subseteq KeysOf(cache)
          /\ pc' = pc]_vars

\* a rejection that lists two offending fields
C4_Witness ==
    /\ ev.op = "predict" /\ ev.phase = "call"
    /\ ev.out.name = "INVALID_INPUT_VALUES"
    /\ Cardinality(Offending(ev.transaction)) = 2
    /\ Cardinality({ev.out.fields[i].field : i \in 1..Len(ev.out.fields)}) = 2

-----------------------------------------------------------------------------
(* C5: the cache never holds more than 100 entries; an insertion of a new    *)
(* key into a cache of 100 entries evicts exactly the entry inserted         *)
(* earliest; while the cache is below 100 entries no entry is evicted        *)
(* (entries leave only by clearCache, dispose or the expiry of the looked-up *)
(* entry).                                                                   *)
C5_CapacityAndEvictionOrder ==
    [][EngineStep
       => /\ Len(cache') <= 100
          /\ (Len(cache) = 100 /\ KeysOf(cache') \ KeysOf(cache) # {})
                => /\ Len(cache') = 100
                   /\ SubSeq(cache', 1, 99) = Tail(cache)
          /\ (Len(cache) < 100 /\ ~(KeysOf(cache) \subseteq KeysOf(cache')))
                => \/ ev'.op \in {"clearCache", "dispose"}
                   \/ /\ EntersPredict(ev')
                      /\ ReachesLookup(ev'.transaction, ev'.options)
                      /\ AgeOf(ev'.transaction) > 3600000
                      /\ KeysOf(cache) \ KeysOf(cache') = {KeyOf(ev'.transaction)}]_vars

\* a full cache whose earliest entry has been evicted by an insertion
C5_Witness ==
    /\ Len(cache) = 100
    /\ ev.phase = "settle" /\ ev.itemOut.kind = "ok"
    /\ cache[100].input = KeyOf(ev.transaction)
    /\ getCacheKey(WarmTx(1)) \notin KeysOf(cache)

-----------------------------------------------------------------------------
(* C6: a cache hit leaves the cache as it is (the entry keeps its creation   *)
(* timestamp and its position in the eviction order); a lookup serves an     *)
(* entry exactly while its age since insertion is at most one hour, whatever *)
(* the number of hits before; the first lookup after that age removes the    *)
(* entry and is handled as a miss: counted as a miss, and the model is       *)
(* invoked again when the vector passes validation.                          *)
C6_HitsDoNotRefresh ==
    [][(/\ EngineStep
        /\ EntersPredict(ev')
        /\ ReachesLookup(ev'.transaction, ev'.options))
       => /\ ev'.itemOut.kind = "ok"
                => /\ AgeOf(ev'.transaction) >= 0
                   /\ AgeOf(ev'.transaction) <= 3600000
          /\ (AgeOf(ev'.transaction) >= 0 /\ AgeOf(ev'.transaction) <= 3600000)
                => /\ ev'.itemOut.kind = "ok"
                   /\ ev'.itemOut.value[1].cached
                   /\ cache' = cache
                   /\ stats'.cacheHits = stats.cacheHits + 1
                   /\ stats'.cacheMisses = stats.cacheMisses
                   /\ modelCalls' = modelCalls
          /\ AgeOf(ev'.transaction) > 3600000
                => /\ KeyOf(ev'.transaction) \notin KeysOf(cache')
                   /\ Len(cache') = Len(cache) - 1
                   /\ stats'.cacheMisses = stats.cacheMisses + 1
                   /\ stats'.cacheHits = stats.cacheHits
                   /\ (MissingSlots(ev'.transaction) = {} /\ Offending(ev'.transaction) = {})
                         => /\ ev'.itemOut = Pending
                            /\ modelCalls' = modelCalls + 1]_vars

\* an entry that has been served is found older than one hour by the next
\* lookup, which removes it and invokes the model
C6_Witness ==
    /\ EntersPredict(ev)
    /\ ev.lookup = "expired"
    /\ ev.itemOut = Pending
    /\ stats.cacheHits > 0
    /\ KeyOf(ev.transaction) \notin KeysOf(cache)
    /\ now = 3600001

-----------------------------------------------------------------------------
(* C7: two predict calls with the same cache key that are in flight at the   *)
(* same time never both take the miss path, invoke the model and insert an   *)
(* entry: a predict call that returns from the model and inserts its entry   *)
(* finds no entry under its key (such an entry could only have been inserted *)
(* by another call while this one was waiting for the model).                *)
C7_LookupAndInsertNotSplit ==
    [][(/\ EngineStep
        /\ ev'.op \in {"predict", "predictBatch"} /\ ev'.phase = "settle"
        /\ ev'.itemOut.kind = "ok"
        /\ ev'.options.useCache)
       => KeyOf(ev'.transaction) \notin KeysOf(cache)]_vars

\* the second of two concurrent misses replaces the entry of the first by a
\* divergent one
C7_Witness ==
    /\ ev.op = "predict" /\ ev.phase = "settle" /\ ev.itemOut.kind = "ok"
    /\ stats.cacheMisses = 2 /\ stats.totalPredictions = 2 /\ stats.cacheHits = 0
    /\ modelCalls = 2
    /\ Len(cache) = 1
    /\ cache[1].result = ev.itemOut.value[1]
    /\ cache[1].result.prediction = "Fraud"

-----------------------------------------------------------------------------
(* C8: a loadModel call that fails leaves the engine not loaded (isLoaded()  *)
(* is false, and predict is rejected); a loadModel call on an engine that is *)
(* not loaded attempts the load again, and the engine is loaded when that    *)
(* attempt succeeds; a loadModel call on a loaded engine creates no session. *)
C8_FailedLoadLeavesUnloaded ==
    [][(EngineStep /\ ev'.op = "loadModel")
       => /\ (ev'.phase = "settle" /\ ev'.out.kind = "err")
                => /\ ~isLoaded'
                   /\ PredictSync(Vector("A"), DefaultOptions, cache', stats', now',
                                  isModelLoaded', session').out
                         = Err("MODEL_NOT_LOADED", <<>>)
          /\ (ev'.phase = "call" /\ ~isModelLoaded)
                => /\ creates' = creates + 1
                   /\ ev'.out = Pending
          /\ (ev'.phase = "settle" /\ ev'.out.kind # "err")
                => /\ isLoaded'
                   /\ session' # 0
          /\ (ev'.phase = "call" /\ isModelLoaded)
                => /\ creates' = creates
                   /\ session' = session
                   /\ pc' = pc]_vars

\* a loadModel call has failed and the engine is loaded
C8_Witness ==
    /\ ev.op = "loadModel" /\ ev.phase = "settle"
    /\ ev.out = Err("MODEL_LOAD_FAILED", <<>>)
    /\ isLoaded
    /\ creates = 2

-----------------------------------------------------------------------------
(* C9: predictBatch(xs, options) goes through predict(x, options) for each x *)
(* of xs, one at a time and in input order: every step of the batch changes  *)
(* the cache, the counters and the number of model invocations as the        *)
(* corresponding step of predict(xs[i], options) does; the results gathered  *)
(* are those of the items 1..i in order and a successful batch returns one   *)
(* result per input; an item repeated right after its first occurrence is    *)
(* served from the cache (cached = true, no model invocation).               *)
C9_BatchIsSequentialPredicts ==
    [][(EngineStep /\ ev'.op = "predictBatch")
       => LET p == ev'.p
              xs == ev'.transactions
              i == IF ev'.phase = "call" THEN 1 ELSE frame[p].index + 1
              sync == PredictSync(Vector(xs[i]), ev'.options, cache, stats, now,
                                  isModelLoaded, session)
              gathered == IF ev'.phase = "call" THEN <<>>
                          ELSE frame[p].results \o frame[p].settled.value
          IN  /\ (ev'.phase = "call" /\ xs = <<>>)
                    => /\ ev'.out = OkBatch(<<>>)
                       /\ cache' = cache /\ stats' = stats /\ modelCalls' = modelCalls
              /\ EntersPredict(ev')
                    => /\ i <= Len(xs)
                       /\ ev'.index = i /\ ev'.transaction = xs[i]
                       /\ ev'.itemOut = sync.out
                       /\ cache' = sync.cache
                       /\ stats' = sync.stats
                       /\ modelCalls' = modelCalls + (IF sync.out = Pending THEN 1 ELSE 0)
                       /\ frame'[p].results = gathered
                       /\ Len(gathered) = i - 1
                       /\ ev'.out = Pending
              /\ ev'.phase = "settle"
                    => /\ ev'.index = frame[p].index
                       /\ ev'.transaction = xs[ev'.index]
                       /\ \E reply \in ModelReplies :
                            LET call == [IdleFrame EXCEPT
                                            !.transaction = xs[ev'.index],
                                            !.options = ev'.options,
                                            !.startTime = frame[p].startTime,
                                            !.inferenceStart = frame[p].inferenceStart]
                                fin == PredictFinish(call, reply, cache, stats, now, session)
                            IN  /\ ev'.itemOut = fin.out
                                /\ cache' = fin.cache
                                /\ stats' = fin.stats
                       /\ modelCalls' = modelCalls
                       /\ frame'[p].results = frame[p].results
              /\ (ev'.phase = "next" /\ ev'.transaction = NoTx)
                    => /\ cache' = cache /\ stats' = stats /\ modelCalls' = modelCalls
                       /\ IF frame[p].settled.kind = "err"
                          THEN ev'.out = frame[p].settled
                          ELSE /\ ev'.out = OkBatch(gathered)
                               /\ Len(gathered) = Len(xs)
              /\ (/\ EntersPredict(ev')
                  /\ ev'.options.useCache
                  /\ ev'.prev # <<>>
                  /\ ev.op = "predictBatch" /\ ev.p = p /\ ev.index = i - 1
                  /\ AgeOf(ev'.transaction) <= 3600000)
                    => /\ ev'.itemOut.kind = "ok"
                       /\ ev'.itemOut.value[1].cached
                       /\ ev'.itemOut.value[1].prediction = ev'.prev[1].result.prediction
                       /\ modelCalls' = modelCalls]_vars

\* a batch of the same vector twice has returned two results, the first
\* computed by the model with the timings asked for, the second served from
\* the cache
C9_Witness ==
    /\ ev.op = "predictBatch" /\ ev.phase = "next"
    /\ ev.transactions = <<"A", "A">>
    /\ ev.out.kind = "okBatch"
    /\ Len(ev.out.value) = 2
    /\ ~ev.out.value[1].cached
    /\ ev.out.value[2].cached
    /\ modelCalls = 1

-----------------------------------------------------------------------------
(* C10: the risk_level of every result the engine computes is the 5-tier     *)
(* function of its probability_fraud p: VERY_LOW if p < 0.1, LOW if p < 0.3, *)
(* MEDIUM if p < 0.7, HIGH if p < 0.9, VERY_HIGH otherwise.                  *)
C10_RiskLevelHasFiveTiers ==
    (ev.itemOut.kind = "ok")
       => LET result == ev.itemOut.value[1]
              p == result.probability_fraud
          IN  result.risk_level =
                 (IF p < 100 THEN "VERY_LOW"
                  ELSE IF p < 300 THEN "LOW"
                  ELSE IF p < 700 THEN "MEDIUM"
                  ELSE IF p < 900 THEN "HIGH"
                  ELSE "VERY_HIGH")

\* a result computed for P(Fraud) = 0.05 carries the level "Low"
C10_Witness ==
    /\ ev.op = "predict" /\ ev.phase = "settle"
    /\ ev.itemOut.kind = "ok"
    /\ ev.itemOut.value[1].probability_fraud = 50
    /\ ev.itemOut.value[1].risk_level = "Low"

-----------------------------------------------------------------------------
(* The stateless functions of the pipeline.  An application of one of them   *)
(* is a step that records the function, its arguments and what it returned   *)
(* in ev; the engine is left as constructed.                                 *)

Applied(op, input, output) == [op |-> op, input |-> input, output |-> output]

\* one application, in a run of its own
Apply(op, input, output) ==
    /\ ev = InitEvent
    /\ ev' = Applied(op, input, output)
    /\ UNCHANGED <<session, isModelLoaded, cache, stats, now, pc, frame, creates,
                   modelCalls, nCalls, nTicks, client, store>>

\* probabilities in units of 10^-3 around the thresholds
ProbGrid == {0, 1, 99, 100, 299, 300, 499, 500, 501, 699, 700, 899, 900, 999, 1000}

\* pairs of numbers postprocess is applied to: it does not ask that they sum to 1
OutputPairs == ProbGrid \X ProbGrid

ApplyPostprocess(probabilities) ==
    Apply("postprocess", probabilities, postprocess(probabilities))

-----------------------------------------------------------------------------
(* Scaler.ts: StandardScaler.  A value handed to the scaler (seconds, an     *)
(* amount) is a number in units of 10^-3; a scaled value is a number in      *)
(* units of 10^-5.  A double has finite precision: the result of a division  *)
(* or a multiplication is the representable number next below the exact one. *)

Milli == 10 ^ 3

RECURSIVE MulDivQR(_, _, _)
\* [q, r] with a * b = q * d + r and 0 <= r < d, for a >= 0, b >= 0, d > 0,
\* by halving a (no intermediate value leaves the 32-bit integers)
MulDivQR(a, b, d) ==
    IF a = 0 THEN [q |-> 0, r |-> 0]
    ELSE LET h == MulDivQR(a \div 2, b, d)
             odd == a % 2
             r == 2 * h.r + odd * (b % d)
         IN  [q |-> 2 * h.q + odd * (b \div d) + r \div d, r |-> r % d]

\* a * b / d, rounded down
MulDiv(a, b, d) ==
    LET negative == (a < 0) # ((b < 0) # (d < 0))
        m == MulDivQR(Abs(a), Abs(b), Abs(d))
    IN  IF negative THEN -m.q - (IF m.r > 0 THEN 1 ELSE 0) ELSE m.q

Throws == [t |-> "throws", v |-> 0]

\* this.mean[feature] || 0, this.std[feature] || 1: the default replaces an
\* absent parameter and a parameter that is 0
ParamOr(table, feature, default) ==
    IF feature \in DOMAIN table /\ table[feature] # 0 THEN table[feature] ELSE default

\* (value - mean) / std
ZScore(value, mean, std) ==
    CASE value.t = "num" -> Num(MulDiv(value.v - mean, Scale, std))
      [] value.t = "inf" -> [t |-> "inf", v |-> IF std > 0 THEN value.v ELSE -value.v]
      [] OTHER -> NaN

\* StandardScaler.transformSingle
transformSingle(params, feature, value) ==
    IF ~params.fitted THEN Throws
    ELSE LET mean == ParamOr(params.mean, feature, 0)
             std == ParamOr(params.std, feature, Milli)
         IN  IF std = 0 THEN Num(0) ELSE ZScore(value, mean, std)

\* StandardScaler.transform, for the one feature `feature` of data
transform(params, feature, value) ==
    IF ~params.fitted THEN Throws
    ELSE LET mean == ParamOr(params.mean, feature, 0)
             std == ParamOr(params.std, feature, Milli)
         IN  IF std = 0 THEN Num(0) ELSE ZScore(value, mean, std)

inverseTransformSingle_MeanDropped(params, feature, scaledValue) ==
    IF ~params.fitted THEN Throws
    ELSE Num(MulDiv(scaledValue.v, ParamOr(params.std, feature, Milli), Scale))

\* StandardScaler.inverseTransformSingle: scaledValue * std + mean
inverseTransformSingle(params, feature, scaledValue) ==
    IF ~params.fitted THEN Throws
    ELSE LET mean == ParamOr(params.mean, feature, 0)
             std == ParamOr(params.std, feature, Milli)
         IN  CASE scaledValue.t = "num" -> Num(MulDiv(scaledValue.v, std, Scale) + mean)
               [] scaledValue.t = "inf" ->
                     [t |-> "inf", v |-> IF std > 0 THEN scaledValue.v ELSE -scaledValue.v]
               [] OTHER -> NaN

\* createPretrainedScaler: the parameters, to 10^-3
PretrainedScaler ==
    [fitted |-> TRUE,
     mean |-> [Time |-> 94813860, Amount |-> 88350],
     std |-> [Time |-> 47488146, Amount |-> 250120]]

\* scalers loaded with other parameters: a feature "x" with mean 2, and
\* std 3, 0.5, 0 or none
ScalerOf(stdOfX) ==
    [fitted |-> TRUE, mean |-> [x |-> 2000], std |-> stdOfX]

Scalers ==
    {PretrainedScaler,
     ScalerOf([x |-> 3000]), ScalerOf([x |-> 500]), ScalerOf([x |-> 0]),
     ScalerOf([y |-> 1000])}

ScalerFeatures == {"Time", "Amount", "x", "unknown"}

\* the largest value handed to a scaler, in units of 1
MaxValue == 4

\* values handed to a scaler: thirds and quarters up to MaxValue, and their negatives
ScalerValues ==
    {Num(k * 250) : k \in (-4 * MaxValue)..(4 * MaxValue)}
        \cup {Num(k * 333) : k \in (-3 * MaxValue)..(3 * MaxValue)}
        \cup {Num(100), Num(149620)}

ApplyTransformSingle(params, feature, value) ==
    Apply("transformSingle", [scaler |-> params, name |-> feature, number |-> value],
          [single |-> transformSingle(params, feature, value),
           record |-> transform(params, feature, value),
           back |-> inverseTransformSingle(params, feature,
                                           transformSingle(params, feature, value))])

-----------------------------------------------------------------------------
(* TemporalFeatureExtractor, AmountFeatureExtractor, RiskIndicatorCalculator *)
(* and FraudPreprocessor.  An instant is its distance in milliseconds from   *)
(* the default reference time 2013-09-01T00:00:00Z; a timestamp is an        *)
(* instant, or a string or Date that denotes none (Invalid Date).            *)

Instant(ms) == [t |-> "instant", v |-> ms]
InvalidDate == [t |-> "invalid", v |-> 0]

\* TemporalFeatureExtractor.getSecondsFromReference, with the default
\* reference time: Math.floor(diff / 1000), NaN for an Invalid Date
getSecondsFromReference(date) ==
    IF date.t = "instant" THEN Num((date.v \div 1000) * Milli) ELSE NaN

\* AmountFeatureExtractor.scaleAmount
scaleAmount(amount) == transformSingle(PretrainedScaler, "Amount", amount)

AMOUNT_P95 == 394640

\* AmountFeatureExtractor.isLargeAmount
isLargeAmount(amount) == GreaterThan(amount, AMOUNT_P95)

\* AmountFeatureExtractor.isRoundNumber: amount % 1 === 0 && amount % 10 === 0
isRoundNumber(amount) ==
    amount.t = "num" /\ amount.v % Milli = 0 /\ amount.v % (10 * Milli) = 0

HIGH_RISK_COUNTRIES == {"NG", "GH", "ID", "PK", "BD", "PH", "VN", "UA", "RU"}

\* RiskIndicatorCalculator.calculate: the indicators computed from the input
calculate(raw) ==
    [is_high_risk_country |-> raw.country_code \in HIGH_RISK_COUNTRIES,
     is_online |-> raw.channel = "online",
     is_high_amount |-> GreaterThan(raw.amount, AMOUNT_P95)]

\* SAMPLE_NORMAL, to 10^-5
SAMPLE_NORMAL ==
    [f \in FeatureSet |->
        Num(CASE f = "Time" -> 138718
              [] f = "V1" -> -67447   [] f = "V2" -> 140810   [] f = "V3" -> -111063
              [] f = "V4" -> -132837  [] f = "V5" -> 138899   [] f = "V6" -> -130844
              [] f = "V7" -> 188587   [] f = "V8" -> -61424   [] f = "V9" -> 31165
              [] f = "V10" -> 65075   [] f = "V11" -> -85779  [] f = "V12" -> -22997
              [] f = "V13" -> -19982  [] f = "V14" -> 26637   [] f = "V15" -> -4655
              [] f = "V16" -> -74140  [] f = "V17" -> -60562  [] f = "V18" -> -39257
              [] f = "V19" -> -16265  [] f = "V20" -> 39432   [] f = "V21" -> 8008
              [] f = "V22" -> 81003   [] f = "V23" -> -22433  [] f = "V24" -> 70789
              [] f = "V25" -> -13584  [] f = "V26" -> 4510    [] f = "V27" -> 53383
              [] f = "V28" -> 29131   [] OTHER -> -25996)]

getDefaultVFeatures_Zero == [f \in FeatureSet \ {"Time", "Amount"} |-> Num(0)]

\* FraudPreprocessor.getDefaultVFeatures: SAMPLE_NORMAL without Time and Amount
getDefaultVFeatures == [f \in FeatureSet \ {"Time", "Amount"} |-> SAMPLE_NORMAL[f]]

\* FraudPreprocessor.convertToModelInput
convertToModelInput(raw, temporal, amount) ==
    LET scaledTime == transformSingle(PretrainedScaler, "Time", temporal.seconds_from_first)
        scaledAmount == amount.scaled_amount
    IN  [f \in FeatureSet |->
            IF f = "Time" THEN scaledTime
            ELSE IF f = "Amount" THEN scaledAmount
            ELSE getDefaultVFeatures[f]]

isRawTransaction_ByTimestamp(input) == input.timestamp # <<>>

\* FraudPreprocessor.isRawTransaction: 'timestamp' in input && !('V1' in input)
isRawTransaction(input) ==
    input.timestamp # <<>> /\ input.vector["V1"].t = "undef"

\* FraudPreprocessor.isValidNumber
isValidNumber(value) == IsNumberType(value) /\ value.t # "nan" /\ IsFiniteNum(value)

\* FraudPreprocessor.hasAllRequiredFeatures
hasAllRequiredFeatures(vector) ==
    \A f \in FeatureSet : vector[f].t # "undef" /\ isValidNumber(vector[f])

\* FraudPreprocessor.preprocess.  An input is the object handed in: its
\* timestamp (<<>> when it has none), amount, country_code and channel, and
\* its 30 named slots (undefined where it has none).
preprocess(input) ==
    LET isRawInput == isRawTransaction(input)
        temporal == [seconds_from_first |-> getSecondsFromReference(input.timestamp[1])]
        amount == [raw |-> input.amount,
                   scaled_amount |-> scaleAmount(input.amount),
                   is_round |-> isRoundNumber(input.amount),
                   is_large |-> isLargeAmount(input.amount)]
        modelInput == IF isRawInput
                      THEN convertToModelInput(input, temporal, amount)
                      ELSE input.vector
    IN  [kind |-> "ok",
         modelInput |-> modelInput,
         risk |-> IF isRawInput THEN <<calculate(input)>> ELSE <<>>,
         metadata |-> [isRawInput |-> isRawInput,
                       hasAllFeatures |-> hasAllRequiredFeatures(modelInput)]]

\* validateTransaction: the errors it lists
validateTransaction(input) ==
    IF input.timestamp # <<>>
    THEN (IF input.timestamp[1].t = "empty"
          THEN <<Field("timestamp", "missing")>> ELSE <<>>)
         \o (IF ~IsNumberType(input.amount) \/ LessThan(input.amount, 0)
             THEN <<Field("amount", "invalid")>> ELSE <<>>)
         \o (IF GreaterThan(input.amount, 100000 * Milli)
             THEN <<Field("amount", "limit")>> ELSE <<>>)
    ELSE (IF input.vector["Time"].t = "undef" THEN <<Field("Time", "missing")>> ELSE <<>>)
         \o (IF input.vector["V1"].t = "undef" THEN <<Field("V1", "missing")>> ELSE <<>>)
         \o (IF input.vector["Amount"].t = "undef"
             THEN <<Field("Amount", "missing")>> ELSE <<>>)

\* the latest instant handed in, in days after the reference time
MaxDays == 10

MsPerDay == 24 * 60 * 60 * 1000

\* new Date('') and the other strings that denote no instant
EmptyString == [t |-> "empty", v |-> 0]

Timestamps ==
    {Instant(d * MsPerDay + 1500) : d \in -3..MaxDays} \cup {InvalidDate, EmptyString}

Amounts ==
    {Num(0), Num(149620), Num(394640), Num(2589000), Num(2590000), Num(-1000),
     NaN, PosInf}

Input(timestamp, amount, country_code, channel, vector) ==
    [timestamp |-> timestamp, amount |-> amount, country_code |-> country_code,
     channel |-> channel, vector |-> vector]

\* objects with a timestamp and none of the 30 slots
RawInputs ==
    {Input(<<ts>>, amount, country_code, channel, Vector(NoTx)) :
        ts \in Timestamps, amount \in Amounts,
        country_code \in {"US", "NG"}, channel \in {"online", "pos"}}

\* objects with slots: without a timestamp, and with one
SlotInputs ==
    {Input(ts, Undef, "", "", Vector(name)) :
        ts \in {<<>>, <<Instant(1500)>>},
        name \in {"A", "B", "noTime", "noV1", "noV3", "noV28", "nanV3", "infV28",
                  "badV3", "lacking3"}}

PreprocessInputs == RawInputs \cup SlotInputs

\* preprocessTransaction(input), validateTransaction(input), and what a
\* loaded engine with an empty cache does with the vector when it is handed
\* to predict
ApplyPreprocess(input) ==
    Apply("preprocess", input,
          [result |-> preprocess(input),
           validation |-> validateTransaction(input),
           predict |-> PredictSync(preprocess(input).modelInput, DefaultOptions,
                                   <<>>, InitStats, 0, TRUE, 1).out])

-----------------------------------------------------------------------------
(* AmountFeatureExtractor.getAmountRiskScore.  The score is in units of 0.1. *)

\* AmountFeatureExtractor.calculateDeviation: |(amount - userAverage) / userStd|
\* as the fraction <<numerator, denominator>>, 0 when userStd is 0
calculateDeviation(amount, userAverage, userStd) ==
    IF userStd.v = 0 THEN <<0, 1>>
    ELSE <<Abs(amount.v - userAverage.v), Abs(userStd.v)>>

\* AmountFeatureExtractor.isUnusualForUser: deviation > 3
isUnusualForUser(amount, userAverage, userStd) ==
    LET deviation == calculateDeviation(amount, userAverage, userStd)
    IN  deviation[1] > 3 * deviation[2]

Min(a, b) == IF a <= b THEN a ELSE b

getAmountRiskScore_RoundFrom100(amount, userAverage, userStd) ==
    Min((IF isLargeAmount(amount) THEN 3 ELSE 0)
        + (IF isRoundNumber(amount) THEN 2 ELSE 0)
        + (IF isRoundNumber(amount) /\ amount.v >= 100 * Milli THEN 1 ELSE 0)
        + (IF /\ userAverage.t # "undef" /\ userStd.t # "undef"
              /\ isUnusualForUser(amount, userAverage, userStd)
           THEN 4 ELSE 0),
        10)

getAmountRiskScore(amount, userAverage, userStd) ==
    LET large == IF isLargeAmount(amount) THEN 3 ELSE 0
        round == IF isRoundNumber(amount) THEN 2 ELSE 0
        veryRound == IF amount.v % (100 * Milli) = 0 /\ amount.v > 0 THEN 1 ELSE 0
        unusual == IF /\ userAverage.t # "undef" /\ userStd.t # "undef"
                      /\ isUnusualForUser(amount, userAverage, userStd)
                   THEN 4 ELSE 0
    IN  Min(large + round + veryRound + unusual, 10)

\* the largest multiple of 10 handed in as an amount, in tens
MaxTens == 45

RiskAmounts ==
    {Num(k * 10 * Milli) : k \in 0..MaxTens}
        \cup {Num(10), Num(5500), Num(10500), Num(100010), Num(394640), Num(394650),
              Num(1000 * Milli), Num(1005 * Milli)}

\* the statistics of the user, when supplied: <<userAverage, userStd>>
UserStatistics ==
    {<<Undef, Undef>>, <<Num(50 * Milli), Undef>>,
     <<Num(50 * Milli), Num(10 * Milli)>>, <<Num(50 * Milli), Num(0)>>,
     <<Num(200 * Milli), Num(100 * Milli)>>, <<Num(50 * Milli), Num(-10 * Milli)>>}

ApplyGetAmountRiskScore(amount, user) ==
    Apply("getAmountRiskScore", [amount |-> amount, userAverage |-> user[1], userStd |-> user[2]],
          getAmountRiskScore(amount, user[1], user[2]))

\* The stateless functions applied to the inputs above.
NextPipeline ==
    \/ \E probabilities \in OutputPairs : ApplyPostprocess(probabilities)
    \/ \E params \in Scalers, feature \in ScalerFeatures, value \in ScalerValues :
          ApplyTransformSingle(params, feature, value)
    \/ \E input \in PreprocessInputs : ApplyPreprocess(input)
    \/ \E amount \in RiskAmounts, user \in UserStatistics :
          ApplyGetAmountRiskScore(amount, user)

SpecPipeline == Init /\ [][NextPipeline]_vars

-----------------------------------------------------------------------------
(* C11: for every model output <<P(Normal), P(Fraud)>>, the result has the   *)
(* label Fraud exactly when P(Fraud) > 0.5 (0.5 itself gives Normal), its    *)
(* confidence_score is the larger of the two outputs, and probability_normal *)
(* and probability_fraud are the two outputs in that order, unchanged.       *)
C11_LabelConfidenceAndProbabilities ==
    (ev.op = "postprocess")
       => LET pNormal == ev.input[1]
              pFraud == ev.input[2]
              result == ev.output
          IN  /\ result.prediction \in {"Fraud", "Normal"}
              /\ (result.prediction = "Fraud") <=> (pFraud > 500)
              /\ result.confidence_score = (IF pNormal >= pFraud THEN pNormal ELSE pFraud)
              /\ result.probability_normal = pNormal
              /\ result.probability_fraud = pFraud

\* P(Fraud) = 0.5 is labelled Normal
C11_Witness ==
    /\ ev.op = "postprocess"
    /\ ev.input = <<500, 500>>
    /\ ev.output.prediction = "Normal"
    /\ ev.output.confidence_score = 500

-----------------------------------------------------------------------------
(* The engine from construction, the model function answering with every    *)
(* probability pair of the grid: the classifier is a function from a vector *)
(* to <<P(Normal), P(Fraud)>>, the two summing to 1.                        *)

ProbabilityPairs == {<<1000 - pFraud, pFraud>> : pFraud \in ProbGrid}

PairReplies ==
    {[fails |-> TRUE, probabilities |-> <<0, 0>>]}
        \cup {[fails |-> FALSE, probabilities |-> o] : o \in ProbabilityPairs}

NextOutputs ==
    \/ \E p \in Procs : loadModel(p)
    \/ \E p \in Procs, created \in BOOLEAN : loadModelSettle(p, created)
    \/ \E p \in Procs, options \in Options : predict(p, "A", options)
    \/ \E p \in Procs, reply \in PairReplies : predictSettle(p, reply)
    \/ \E p \in Procs, options \in Options : predictBatch(p, <<"A">>, options)
    \/ \E p \in Procs, reply \in PairReplies : predictBatchSettle(p, reply)
    \/ \E p \in Procs : predictBatchNext(p)
    \/ clearCache
    \/ resetStats
    \/ dispose

SpecOutputs == Init /\ [][NextOutputs]_vars

\* the probabilities and the confidence of a result are within [0, 1], the
\* probabilities sum to 1 and the confidence is the larger of the two
WellFormed(result) ==
    /\ result.probability_fraud \in 0..1000
    /\ result.probability_normal \in 0..1000
    /\ result.confidence_score \in 0..1000
    /\ result.probability_fraud + result.probability_normal = 1000
    /\ result.confidence_score = Max(result.probability_fraud, result.probability_normal)

-----------------------------------------------------------------------------
(* The feature pipeline: FraudPreprocessor.preprocess, validateTransaction *)

\* the slot holds a finite number
FiniteSlot(vector, f) == IsNumberType(vector[f]) /\ isValidNumber(vector[f])

\* the slots of the vector that are missing or hold no finite number
BadSlots(vector) == {f \in FeatureSet : ~FiniteSlot(vector, f)}

\* the input is raw as the pipeline reads it
IsRaw(input) == input.timestamp # <<>> /\ input.vector["V1"].t = "undef"

\* C13: every model input that preprocess returns without error holds a
\* finite number in each of the 30 slots Time, V1..V28, Amount, for every raw
\* input and every pre-processed input.
C13_EverySlotIsFinite ==
    (ev.op = "preprocess" /\ ev.output.result.kind = "ok")
       => BadSlots(ev.output.result.modelInput) = {}

\* a raw input whose timestamp string denotes no instant, amount 149.62, is
\* turned without error into a model input whose Time slot is NaN
C13_Witness ==
    /\ ev.op = "preprocess"
    /\ ev.input.timestamp = <<InvalidDate>>
    /\ ev.input.amount = Num(149620)
    /\ ev.output.result.kind = "ok"
    /\ ev.output.result.modelInput["Time"] = NaN
    /\ BadSlots(ev.output.result.modelInput) = {"Time"}

\* the field names an error list holds
FieldsOf(errors) == {errors[i].field : i \in DOMAIN errors}

\* C14: a pre-processed input in which some of the 30 slots are missing or
\* hold no finite number is rejected with a validation error that lists
\* every such slot: by preprocess, by validateTransaction, or at the latest
\* by the engine's validation when the vector is handed to predict.
C14_InvalidVectorIsRejectedWithEveryField ==
    (ev.op = "preprocess" /\ ~IsRaw(ev.input) /\ BadSlots(ev.input.vector) # {})
       => \/ /\ ev.output.result.kind = "err"
             /\ FieldsOf(ev.output.result.fields) = BadSlots(ev.input.vector)
          \/ FieldsOf(ev.output.validation) = BadSlots(ev.input.vector)
          \/ /\ ev.output.predict.kind = "err"
             /\ FieldsOf(ev.output.predict.fields) = BadSlots(ev.input.vector)

\* a vector without V3 and V4 and with NaN in V28 is returned by preprocess as
\* the model input, validateTransaction lists nothing, and predict names V3 only
C14_Witness ==
    /\ ev.op = "preprocess"
    /\ ev.input.timestamp = <<>>
    /\ BadSlots(ev.input.vector) = {"V3", "V4", "V28"}
    /\ ev.output.result.kind = "ok"
    /\ ev.output.result.modelInput = ev.input.vector
    /\ ~ev.output.result.metadata.hasAllFeatures
    /\ ev.output.validation = <<>>
    /\ FieldsOf(ev.output.predict.fields) = {"V3"}

\* C15: preprocess treats an input as raw exactly when it has a timestamp
\* and no V1; for every other input, one with both a timestamp and a V1
\* included, the model input is the input's vector, every slot as it was
\* handed in, and metadata.isRawInput is false.
C15_RawIffTimestampAndNoV1 ==
    (ev.op = "preprocess")
       => /\ ev.output.result.metadata.isRawInput <=> IsRaw(ev.input)
          /\ ~IsRaw(ev.input)
                => /\ ev.output.result.modelInput = ev.input.vector
                   /\ ev.output.result.risk = <<>>

\* an input with both a timestamp and the 30 slots of A comes back unchanged
C15_Witness ==
    /\ ev.op = "preprocess"
    /\ ev.input.timestamp = <<Instant(1500)>>
    /\ ev.input.vector = Vector("A")
    /\ ~ev.output.result.metadata.isRawInput
    /\ ev.output.result.modelInput = Vector("A")
    /\ ev.output.result.modelInput["Time"] # transformSingle(PretrainedScaler, "Time", Num(1000))

\* the raw inputs with the timestamp and the amount of `input`
SameTimestampAndAmount(input) ==
    {other \in RawInputs :
        other.timestamp = input.timestamp /\ other.amount = input.amount}

\* C16: in raw mode V1..V28 of the model input are the fixed baseline, Time
\* is the scaled number of seconds since the reference time and Amount is
\* the scaled amount; raw inputs with the same timestamp and the same amount
\* get the same model input, whatever their country and channel.
C16_RawModeUsesBaselineComponents ==
    (ev.op = "preprocess" /\ IsRaw(ev.input))
       => LET modelInput == ev.output.result.modelInput
              seconds == getSecondsFromReference(ev.input.timestamp[1])
          IN  /\ \A f \in FeatureSet \ {"Time", "Amount"} : modelInput[f] = SAMPLE_NORMAL[f]
              /\ modelInput["Time"] = transformSingle(PretrainedScaler, "Time", seconds)
              /\ modelInput["Amount"] = transformSingle(PretrainedScaler, "Amount", ev.input.amount)
              /\ \A other \in SameTimestampAndAmount(ev.input) :
                    preprocess(other).modelInput = modelInput

\* an online transaction from a high-risk country, 149.62 one day after the
\* reference time, gets the baseline components; the indicators differ from
\* those of the same transaction made at a terminal in the US
C16_Witness ==
    /\ ev.op = "preprocess"
    /\ ev.input.timestamp = <<Instant(MsPerDay + 1500)>>
    /\ ev.input.amount = Num(149620)
    /\ ev.input.country_code = "NG"
    /\ ev.input.channel = "online"
    /\ ev.output.result.metadata.isRawInput
    /\ ev.output.result.modelInput["V14"] = Num(26637)
    /\ ev.output.result.modelInput["Amount"] = Num(24496)
    /\ ev.output.result.risk[1].is_high_risk_country
    /\ \E other \in SameTimestampAndAmount(ev.input) :
          /\ other.country_code = "US"
          /\ preprocess(other).risk # ev.output.result.risk
          /\ preprocess(other).modelInput = ev.output.result.modelInput

\* C17: the vector that the pipeline returns for a raw transaction whose
\* timestamp denotes an instant and whose amount is a non-negative number
\* passes the validation of predict on a loaded engine: the call reaches the
\* model instead of failing.
C17_RawTransactionIsAcceptedByPredict ==
    (/\ ev.op = "preprocess"
     /\ IsRaw(ev.input)
     /\ ev.input.timestamp[1].t = "instant"
     /\ ev.input.amount.t = "num"
     /\ ev.input.amount.v >= 0)
       => ev.output.predict = Pending

\* a transaction of 149.62 made ten days after the reference time is
\* rejected by predict for its Time slot alone
C17_Witness ==
    /\ ev.op = "preprocess"
    /\ ev.input.timestamp = <<Instant(10 * MsPerDay + 1500)>>
    /\ ev.input.amount = Num(149620)
    /\ ev.output.validation = <<>>
    /\ ev.output.result.metadata.hasAllFeatures
    /\ GreaterThan(ev.output.result.modelInput["Time"], 16 * Scale)
    /\ ev.output.predict.kind = "err"
    /\ ev.output.predict.name = "INVALID_INPUT_VALUES"
    /\ FieldsOf(ev.output.predict.fields) = {"Time"}

-----------------------------------------------------------------------------
(* The scaler *)

\* the scaler has a mean and a standard deviation for the name
HasParams(params, feature) ==
    feature \in DOMAIN params.mean /\ feature \in DOMAIN params.std

\* C18: on a fitted scaler, for a name that has parameters, transform and
\* transformSingle return (value - mean[name]) / std[name], and 0 for every
\* value when std[name] is 0.
C18_ScaledIsZScoreAndZeroForZeroStd ==
    (ev.op = "transformSingle" /\ HasParams(ev.input.scaler, ev.input.name))
       => LET mean == ev.input.scaler.mean[ev.input.name]
              std == ev.input.scaler.std[ev.input.name]
              expected == IF std = 0 THEN Num(0)
                          ELSE Num(MulDiv(ev.input.number.v - mean, Scale, std))
          IN  /\ ev.output.single = expected
              /\ ev.output.record = expected

\* with mean 2 and std 0 the value 3 is scaled to 1, by both functions
C18_Witness ==
    /\ ev.op = "transformSingle"
    /\ ev.input.scaler = ScalerOf([x |-> 0])
    /\ ev.input.name = "x"
    /\ ev.input.number = Num(3000)
    /\ ev.output.single = Num(Scale)
    /\ ev.output.record = Num(Scale)

\* the standard deviation the scaler uses for the name, in units of 10^-3
UsedStd(params, feature) ==
    IF feature \in DOMAIN params.std /\ params.std[feature] # 0
    THEN params.std[feature] ELSE Milli

\* the name scales with a standard deviation that is not 0: it has one that
\* is not 0, or it has none and scales with 1
NonZeroStd(params, feature) ==
    feature \in DOMAIN params.std => params.std[feature] # 0

\* the distance of two numbers in units of 10^-3
Distance(a, b) == Abs(a.v - b.v)

\* C19, as stated: for every name whose std is not 0, names absent from the
\* parameters included, inverseTransformSingle(name, transformSingle(name,
\* value)) equals value.
C19_RoundTripIsExact ==
    (ev.op = "transformSingle" /\ NonZeroStd(ev.input.scaler, ev.input.name))
       => ev.output.back = ev.input.number

\* C19, amended: ... is value up to the rounding of the two operations: the
\* quotient is rounded once (an error below one unit of the scaled value,
\* which the inverse multiplies by std) and so is the product.
C19_RoundTripWithinRounding ==
    (ev.op = "transformSingle" /\ NonZeroStd(ev.input.scaler, ev.input.name))
       => /\ ev.output.back.t = "num"
          /\ Distance(ev.output.back, ev.input.number) * Scale
                <= UsedStd(ev.input.scaler, ev.input.name) + Scale

\* 0.1 scaled as Time with the pretrained parameters does not come back as 0.1
C19_Witness ==
    /\ ev.op = "transformSingle"
    /\ ev.input.scaler = PretrainedScaler
    /\ ev.input.name = "Time"
    /\ ev.input.number = Num(100)
    /\ ev.output.back # ev.input.number
    /\ Distance(ev.output.back, ev.input.number) <= 475

-----------------------------------------------------------------------------
(* The amount risk score, in units of 0.1 *)

Weight(condition, tenths) == IF condition THEN tenths ELSE 0

Integral(amount) == amount.v % Milli = 0

DivisibleBy(amount, n) == amount.v % (n * Milli) = 0

StatisticsSupplied(input) == input.userAverage.t # "undef" /\ input.userStd.t # "undef"

\* |amount - userAverage| / userStd > 3, the quotient as the division of
\* numbers gives it: infinite for a divisor 0 and a dividend that is not 0
DeviationQuotientAbove3(input) ==
    LET distance == Abs(input.amount.v - input.userAverage.v)
    IN  CASE input.userStd.v > 0 -> distance > 3 * input.userStd.v
          [] input.userStd.v = 0 -> distance > 0
          [] OTHER -> FALSE

\* C20, as stated: the score is min(1.0, 0.3 [amount > 394.64] + 0.2 [amount
\* is integral and divisible by 10] + 0.1 [amount is round and amount >= 100]
\* + 0.4 [user statistics supplied and |amount - userAverage| / userStd > 3])
\* for every non-negative amount.
C20_ScoreAsStated ==
    (ev.op = "getAmountRiskScore")
       => LET input == ev.input
              round == Integral(input.amount) /\ DivisibleBy(input.amount, 10)
          IN  ev.output =
                 Min(Weight(input.amount.v > 394640, 3)
                     + Weight(round, 2)
                     + Weight(round /\ input.amount.v >= 100 * Milli, 1)
                     + Weight(StatisticsSupplied(input) /\ DeviationQuotientAbove3(input), 4),
                     10)

\* C20, amended: the third term is 0.1 [amount > 0 and amount divisible by
\* 100], and the fourth is 0.4 [user statistics supplied and userStd is not 0
\* and |amount - userAverage| / |userStd| > 3].
C20_ScoreWithDivisibleBy100 ==
    (ev.op = "getAmountRiskScore")
       => LET input == ev.input
              round == Integral(input.amount) /\ DivisibleBy(input.amount, 10)
              unusual == /\ StatisticsSupplied(input)
                         /\ input.userStd.v # 0
                         /\ Abs(input.amount.v - input.userAverage.v)
                               > 3 * Abs(input.userStd.v)
          IN  ev.output =
                 Min(Weight(input.amount.v > 394640, 3)
                     + Weight(round, 2)
                     + Weight(input.amount.v > 0 /\ DivisibleBy(input.amount, 100), 1)
                     + Weight(unusual, 4),
                     10)

\* 110 without user statistics scores 0.2: round, at least 100, not divisible by 100
C20_Witness ==
    /\ ev.op = "getAmountRiskScore"
    /\ ev.input.amount = Num(110 * Milli)
    /\ ~StatisticsSupplied(ev.input)
    /\ ev.output = 2

-----------------------------------------------------------------------------
(* TemporalFeatureExtractor.extract and RiskIndicatorCalculator.calculate on *)
(* a runtime whose local time is `offset` minutes ahead of UTC.  A date is   *)
(* here the day after the reference time and the minute of that day, UTC.    *)

UtcDate(days, minutes) == [t |-> "utc", days |-> days, minutes |-> minutes]

MinutesPerDay == 24 * 60

\* Date.prototype.getHours: the hour of the local time
getHours(date, offset) == ((date.minutes + offset) % MinutesPerDay) \div 60

\* TemporalFeatureExtractor.isNightTime
isNightTime(date, offset) ==
    LET hour == getHours(date, offset)
    IN  hour >= 22 \/ hour <= 6

\* TemporalFeatureExtractor.extract: the hour and the night flag
extract(date, offset) ==
    [hour |-> getHours(date, offset), is_night |-> isNightTime(date, offset)]

\* 2024-01-15 is 3788 days after 2013-09-01
ScenarioDays == 3788

\* minutes of the day handed in: 03:15, 12:00, 22:30
ClockMinutes == {3 * 60 + 15, 12 * 60, 22 * 60 + 30}

\* local time zones, in minutes ahead of UTC: from UTC-12 to UTC+14
Offsets == {-720, -360, -300, 0, 210, 330, 840}

\* the features extracted for one raw transaction; a runtime keeps its time zone
extractFeatures(minutes, amount, country_code, channel, offset) ==
    LET raw == Input(<<UtcDate(ScenarioDays, minutes)>>, Num(amount), country_code,
                     channel, Vector(NoTx))
    IN  /\ ev.op \in {"new", "extractFeatures"}
        /\ ev.op = "extractFeatures" => ev.input.offset = offset
        /\ ev' = Applied("extractFeatures", [raw |-> raw, offset |-> offset],
                         [temporal |-> extract(raw.timestamp[1], offset),
                          risk |-> calculate(raw)])
        /\ UNCHANGED <<session, isModelLoaded, cache, stats, now, pc, frame, creates,
                       modelCalls, nCalls, nTicks, client, store>>

NextFeatures ==
    \E minutes \in ClockMinutes, amount \in {2500000, 149620},
       country_code \in {"NG", "US"}, channel \in {"online", "pos"},
       offset \in Offsets :
          extractFeatures(minutes, amount, country_code, channel, offset)

SpecFeatures == Init /\ [][NextFeatures]_vars

\* the event is the extraction for 2024-01-15T03:15:00Z, 2500.00, NG, online
IsScenario(e) ==
    /\ e.op = "extractFeatures"
    /\ e.input.raw.timestamp = <<UtcDate(ScenarioDays, 3 * 60 + 15)>>
    /\ e.input.raw.amount = Num(2500000)
    /\ e.input.raw.country_code = "NG"
    /\ e.input.raw.channel = "online"

\* C21: the features extracted for the transaction of 2024-01-15T03:15:00Z,
\* amount 2500.00, country NG, channel online have is_night, is_high_amount,
\* is_high_risk_country and is_online all true, whatever the time zone of
\* the runtime and whatever was extracted before.
C21_ScenarioFlagsInEveryTimeZone ==
    IsScenario(ev)
       => /\ ev.output.temporal.is_night
          /\ ev.output.risk.is_high_amount
          /\ ev.output.risk.is_high_risk_country
          /\ ev.output.risk.is_online

\* on a runtime at UTC+5:30, after another transaction, the local hour of the
\* scenario is 8 and is_night is false, the three other flags true
C21_Witness ==
    /\ IsScenario(ev)
    /\ ev.input.offset = 330
    /\ ev.output.temporal.hour = 8
    /\ ~ev.output.temporal.is_night
    /\ ev.output.risk.is_high_amount
    /\ ev.output.risk.is_high_risk_country
    /\ ev.output.risk.is_online

-----------------------------------------------------------------------------
(* useAppStore.ts: the client of the remote scoring service.  A request      *)
(* settles with a response or with an AxiosError: a timeout (code            *)
(* ECONNABORTED), no response at all, or a response with an error status.    *)

RETRY_ATTEMPTS == 3
RETRY_DELAY == 1000

Settled(kind, status) == [kind |-> kind, status |-> status]

Responses ==
    {Settled("ok", 200), Settled("timeout", 0), Settled("network", 0)}
        \cup {Settled("status", status) : status \in {400, 422, 429, 500, 503}}

ApiError(message, statusCode) == [message |-> message, statusCode |-> statusCode]

\* the response interceptor of createApiClient: the ApiError thrown for an AxiosError
Intercept(error) ==
    IF error.kind = "timeout" THEN ApiError("Request timeout. Please try again.", 408)
    ELSE IF error.kind = "network"
    THEN ApiError("Network error. Please check your connection.", 0)
    ELSE IF error.status = 429
    THEN ApiError("Too many requests. Please wait a moment.", 429)
    ELSE IF error.status >= 500
    THEN ApiError("Server error. Please try again later.", error.status)
    ELSE ApiError("response", error.status)

\* ApiError.isClientError
isClientError(error) == error.statusCode >= 400 /\ error.statusCode < 500

\* what a rejected call threw
Thrown(error) == [Err("ApiError", <<>>) EXCEPT !.value = <<error>>]

\* throw lastError || new Error('Prediction failed after retries')
AfterRetries(lastError) ==
    IF lastError # <<>> THEN Thrown(lastError[1])
    ELSE Err("Prediction failed after retries", <<>>)

BackoffDelay_Linear(attempt) == RETRY_DELAY * attempt

\* RETRY_DELAY * Math.pow(2, attempt - 1)
BackoffDelay(attempt) == RETRY_DELAY * 2 ^ (attempt - 1)

\* the largest maxAttempts handed to predictWithRetry
MaxAttempts == 4

\* predictWithRetry(transaction, maxAttempts) up to the first await
predictWithRetry(maxAttempts) ==
    /\ client.pc = "idle"
    /\ client' = IF 1 <= maxAttempts
                 THEN [client EXCEPT !.pc = "request", !.maxAttempts = maxAttempts,
                                     !.attempt = 1, !.calls = 1]
                 ELSE [client EXCEPT !.pc = "done", !.maxAttempts = maxAttempts,
                                     !.attempt = 1, !.out = AfterRetries(<<>>)]
    /\ UNCHANGED <<session, isModelLoaded, cache, stats, now, pc, frame, creates,
                   modelCalls, ev, nCalls, nTicks, store>>

\* from the settling of predictSingle to the return, the throw or the sleep
predictSingleSettle(response) ==
    /\ client.pc = "request"
    /\ client' =
          IF response.kind = "ok"
          THEN [client EXCEPT !.pc = "done", !.out = Ok("PredictionResult")]
          ELSE LET error == Intercept(response)
                   failed == [client EXCEPT !.lastError = <<error>>,
                                            !.failure = <<response>>]
               IN  IF isClientError(error)
                   THEN [failed EXCEPT !.pc = "done", !.out = Thrown(error)]
                   ELSE IF client.attempt < client.maxAttempts
                   THEN [failed EXCEPT !.pc = "sleep",
                                       !.slept = Append(@, BackoffDelay(client.attempt))]
                   ELSE [failed EXCEPT !.pc = "done", !.attempt = @ + 1,
                                       !.out = AfterRetries(<<error>>)]
    /\ UNCHANGED <<session, isModelLoaded, cache, stats, now, pc, frame, creates,
                   modelCalls, ev, nCalls, nTicks, store>>

\* from the end of the sleep to the next request
sleepSettle ==
    /\ client.pc = "sleep"
    /\ client' = [client EXCEPT !.pc = "request", !.attempt = @ + 1, !.calls = @ + 1]
    /\ UNCHANGED <<session, isModelLoaded, cache, stats, now, pc, frame, creates,
                   modelCalls, ev, nCalls, nTicks, store>>

NextRetry ==
    \/ \E maxAttempts \in -1..MaxAttempts : predictWithRetry(maxAttempts)
    \/ \E response \in Responses : predictSingleSettle(response)
    \/ sleepSettle

SpecRetry == Init /\ [][NextRetry]_vars

\* a request settles (the client's timeout bounds it) and a sleep ends
SpecRetryLive ==
    /\ SpecRetry
    /\ WF_vars(\E response \in Responses : predictSingleSettle(response))
    /\ WF_vars(sleepSettle)

\* the failure is one of the transient ones: a timeout, no response, a 5xx
Transient(response) ==
    \/ response.kind \in {"timeout", "network"}
    \/ response.kind = "status" /\ response.status >= 500

\* the call failed before its last attempt
GaveUpEarly == 
    /\ client.pc = "done"
    /\ client.out.kind = "err"
    /\ client.failure # <<>>
    /\ client.attempt < client.maxAttempts

\* C22: a predictWithRetry call gives up before its last attempt only on a
\* client error that is not transient: after a timeout, a network error
\* without response or a server error (5xx) it goes on to the next attempt.
C22_TransientFailuresAreRetried ==
    GaveUpEarly => /\ ~Transient(client.failure[1])
                   /\ client.failure[1].status \in 400..499

\* predictWithRetry(t, 3) whose first request times out fails at once
C22_Witness ==
    /\ GaveUpEarly
    /\ client.maxAttempts = RETRY_ATTEMPTS
    /\ client.calls = 1
    /\ client.failure = <<Settled("timeout", 0)>>
    /\ client.out = Thrown(ApiError("Request timeout. Please try again.", 408))
    /\ client.slept = <<>>

-----------------------------------------------------------------------------
(* usePredictionStore.ts: the prediction store.  A history item is           *)
(* [id, seq, result]: id is `pred_${Date.now()}_${random}`, seq the number   *)
(* of the addToHistory call that made it (the order of the timestamps).      *)

maxHistorySize == 100

\* the largest number of addToHistory and of removeFromHistory calls in a run
MaxAdds == 3
MaxRemoves == 2

\* number of items a filled store starts with
HistoryFill == 99

Result(prediction, risk_level) == [prediction |-> prediction, risk_level |-> risk_level]

\* results as the engine makes them, and results labelled with the RiskLevel type
EngineResults == {Result("Normal", "Low"), Result("Fraud", "High"), Result("Normal", "Medium")}

TypedResults ==
    {Result("Normal", "VERY_LOW"), Result("Normal", "LOW"), Result("Normal", "MEDIUM"),
     Result("Fraud", "HIGH"), Result("Fraud", "VERY_HIGH")}

\* the forEach of updateStats for the risk levels: riskDistribution[level]++
\* for each item; a key the object has counts its items, a key it lacks is
\* made by the first ++ on undefined and holds NaN from then on
CountLevels(history, riskDistribution) ==
    LET present == {history[i].result.risk_level : i \in DOMAIN history}
        itemsOf(level) == {i \in DOMAIN history : history[i].result.risk_level = level}
    IN  [level \in DOMAIN riskDistribution \cup present |->
            IF level \in DOMAIN riskDistribution
            THEN Num(riskDistribution[level].v + Cardinality(itemsOf(level)))
            ELSE NaN]

\* updateStats: the stats computed from the history
updateStats(history) ==
    IF history = <<>> THEN initialStats
    ELSE [totalPredictions |-> Len(history),
          fraudDetected |->
              Cardinality({i \in DOMAIN history : history[i].result.prediction = "Fraud"}),
          normalDetected |->
              Cardinality({i \in DOMAIN history : history[i].result.prediction # "Fraud"}),
          riskDistribution |-> CountLevels(history, initialStats.riskDistribution)]

Prepend_Unlimited(history, newItem) == <<newItem>> \o history

\* addToHistory: [newItem, ...state.history], popped when longer than maxHistorySize
Prepend(history, newItem) ==
    LET newHistory == <<newItem>> \o history
    IN  IF Len(newHistory) > maxHistorySize
        THEN SubSeq(newHistory, 1, Len(newHistory) - 1)
        ELSE newHistory

\* history.filter((item) => item.id !== id)
Without(history, id) == SelectSeq(history, LAMBDA item : item.id # id)

NewItem(result, random) ==
    [id |-> <<now, random>>, seq |-> store.added + 1, result |-> result]

StoreFrame ==
    UNCHANGED <<session, isModelLoaded, cache, stats, now, pc, frame, creates,
                modelCalls, ev, nCalls, nTicks, client>>

setPrediction(result, random) ==
    /\ store.added < MaxAdds
    /\ store' = [store EXCEPT
                    !.currentPrediction = <<result>>,
                    !.history = Prepend(@, NewItem(result, random)),
                    !.stats = updateStats(Prepend(store.history, NewItem(result, random))),
                    !.added = @ + 1]
    /\ StoreFrame

addToHistory(result, random) ==
    /\ store.added < MaxAdds
    /\ store' = [store EXCEPT
                    !.history = Prepend(@, NewItem(result, random)),
                    !.stats = updateStats(Prepend(store.history, NewItem(result, random))),
                    !.added = @ + 1]
    /\ StoreFrame

removeFromHistory(id) ==
    /\ store.removed < MaxRemoves
    /\ store' = [store EXCEPT
                    !.history = Without(@, id),
                    !.stats = updateStats(Without(store.history, id)),
                    !.removed = @ + 1]
    /\ StoreFrame

clearHistory ==
    /\ store' = [store EXCEPT !.history = <<>>, !.stats = initialStats]
    /\ StoreFrame

clearAll ==
    /\ store' = [store EXCEPT !.currentPrediction = <<>>, !.history = <<>>,
                              !.stats = initialStats]
    /\ StoreFrame

\* the store driven with the results of R, the random id parts of Randoms,
\* and removals of the items at Positions
Store(R, Randoms, Positions) ==
    \/ \E result \in R, random \in Randoms : setPrediction(result, random)
    \/ \E result \in R, random \in Randoms : addToHistory(result, random)
    \/ \E i \in Positions \cap DOMAIN store.history :
          removeFromHistory(store.history[i].id)
    \/ clearHistory
    \/ clearAll

\* The store from its creation, with every kind of result.
NextStore == Store(EngineResults \cup TypedResults, {1, 2}, 1..MaxAdds)

SpecStore == Init /\ [][NextStore]_vars

\* a store that holds HistoryFill items, item i made by the i-th call before
\* the run (seq = 1 - i)
FilledHistory ==
    [i \in 1..HistoryFill |->
        [id |-> <<-i, 1>>, seq |-> 1 - i,
         result |-> IF i % 2 = 0 THEN Result("Fraud", "High") ELSE Result("Normal", "Low")]]

InitFilled ==
    /\ session = 0
    /\ isModelLoaded = FALSE
    /\ cache = <<>>
    /\ stats = InitStats
    /\ creates = 0
    /\ modelCalls = 0
    /\ now = 0
    /\ pc = [p \in Procs |-> "idle"]
    /\ frame = [p \in Procs |-> IdleFrame]
    /\ ev = InitEvent
    /\ nCalls = 0
    /\ nTicks = 0
    /\ client = InitClient
    /\ store = [InitStore EXCEPT !.history = FilledHistory,
                                 !.stats = updateStats(FilledHistory)]

\* The store from the filled state; the newest, the second and the oldest
\* item can be removed.
NextFilled ==
    Store({Result("Normal", "Low"), Result("Fraud", "High")}, {1},
          {1, 2, maxHistorySize - 1, maxHistorySize})

SpecFilled == InitFilled /\ [][NextFilled]_vars

\* the items are ordered newest first
NewestFirst(history) ==
    \A i \in 1..(Len(history) - 1) : history[i].seq > history[i + 1].seq

\* C23: the history holds at most 100 items, newest first, after every
\* sequence of setPrediction, addToHistory, removeFromHistory, clearHistory
\* and clearAll; an addition to a history of 100 items drops the oldest item
\* and keeps the other 99 in order behind the new one.
C23_HistoryIsBoundedAndNewestFirst ==
    [][/\ Len(store'.history) <= 100
       /\ NewestFirst(store'.history)
       /\ (store'.added = store.added + 1 /\ Len(store.history) = 100)
             => /\ Len(store'.history) = 100
                /\ store'.history[1].seq = store'.added
                /\ SubSeq(store'.history, 2, 100) = SubSeq(store.history, 1, 99)]_vars

\* the history holds 100 items of which the oldest of the filled store is gone
C23_Witness ==
    /\ Len(store.history) = 100
    /\ store.added = 2
    /\ store.removed = 0
    /\ store.history[1].seq = 2
    /\ store.history[100].seq = 2 - HistoryFill

-----------------------------------------------------------------------------
(* The engine's counters *)

\* the step is a predict call (a caller's or predictBatch's) that returns a
\* computed result: its model invocation succeeded
CompletesInvocation(e) ==
    /\ e.op \in {"predict", "predictBatch"}
    /\ e.phase = "settle"
    /\ e.itemOut.kind = "ok"

\* C24: totalPredictions counts the predict calls whose model invocation
\* succeeded: such a call adds 1 to it and its inference time to the
\* cumulative time, every other step of a predict call (a cache hit, a
\* rejection by validation, a failed model invocation) leaves both as they
\* are; getStats reports the cumulative time / totalPredictions and cacheHits
\* / (cacheHits + cacheMisses), 0 where the denominator is 0, and the number
\* of cache entries.
C24_CountersFollowCompletedInvocations ==
    [][EngineStep
          => /\ ev'.op # "resetStats"
                => /\ stats'.totalPredictions
                         = stats.totalPredictions + (IF CompletesInvocation(ev') THEN 1 ELSE 0)
                   /\ ~CompletesInvocation(ev')
                         => stats'.totalInferenceTime = stats.totalInferenceTime
                   /\ CompletesInvocation(ev')
                         => stats'.totalInferenceTime >= stats.totalInferenceTime
             /\ ev'.op = "resetStats" => stats' = InitStats
             /\ getStats'.totalPredictions = stats'.totalPredictions
             /\ getStats'.avgInferenceTime =
                   (IF stats'.totalPredictions = 0 THEN <<0, 1>>
                    ELSE <<stats'.totalInferenceTime, stats'.totalPredictions>>)
             /\ getStats'.cacheHitRate =
                   (IF stats'.cacheHits + stats'.cacheMisses = 0 THEN <<0, 1>>
                    ELSE <<stats'.cacheHits, stats'.cacheHits + stats'.cacheMisses>>)
             /\ getStats'.cacheSize = Len(cache')]_vars

\* after a completed call that took time, a hit and a failed call,
\* totalPredictions is 1 with 1 hit and 2 misses
C24_Witness ==
    /\ stats.totalPredictions = 1
    /\ stats.totalInferenceTime > 0
    /\ stats.cacheHits = 1
    /\ stats.cacheMisses = 2
    /\ ev.out.kind = "err"
    /\ getStats.cacheHitRate = <<1, 3>>
    /\ getStats.cacheSize = 1

-----------------------------------------------------------------------------
(* predictBatch: a failing item *)

\* the predict call of the item call slot p is at has thrown, and p resumes
ResumesAfterFailure(p) ==
    /\ pc[p] = "batchSettled"
    /\ frame[p].settled.kind = "err"
    /\ pc'[p] # "batchSettled"

\* C25: when the predict call of item i of a batch fails, predictBatch fails
\* as a whole with that very error and hands out no results; no later item
\* is processed (no cache lookup, no counter, no model invocation), and the
\* cache entries and counters the earlier items left stay as they are.
C25_BatchFailsAtFirstFailingItem ==
    [][EngineStep
          => \A p \in Procs :
                ResumesAfterFailure(p)
                   => /\ ev'.op = "predictBatch"
                      /\ ev'.p = p
                      /\ ev'.out = frame[p].settled
                      /\ ev'.out.kind = "err"
                      /\ ev'.index = frame[p].index
                      /\ pc'[p] = "idle"
                      /\ cache' = cache
                      /\ stats' = stats
                      /\ modelCalls' = modelCalls]_vars

\* the second item of a batch failed in the model after the first was
\* predicted and cached: the batch has failed, the first item's entry and
\* count remain
C25_Witness ==
    /\ ev.op = "predictBatch"
    /\ ev.phase = "next"
    /\ ev.index = 2
    /\ ev.out.kind = "err"
    /\ ev.out.name = "INFERENCE_FAILED"
    /\ Len(cache) = 1
    /\ stats.totalPredictions = 1

-----------------------------------------------------------------------------
(* predictWithRetry: termination and the course of the attempts *)

\* the delays slept so far are 1000 * 2^(k-1) ms after the k-th failed attempt
SleptAsStated ==
    \A k \in 1..Len(client.slept) : client.slept[k] = 1000 * 2 ^ (k - 1)

\* the course of one predictWithRetry call, at any moment of it
RetryAsStated ==
    /\ client.calls <= (IF client.maxAttempts > 0 THEN client.maxAttempts ELSE 0)
    /\ SleptAsStated
    /\ client.pc = "sleep" => /\ Len(client.slept) = client.calls
                              /\ client.calls < client.maxAttempts
    /\ client.pc \in {"request", "done"} /\ client.calls > 0
          => Len(client.slept) = client.calls - 1
    /\ client.out.kind = "ok" => client.pc = "done"
    /\ client.lastError # <<>> /\ client.lastError[1].statusCode \in 400..499
          => /\ client.pc = "done"
             /\ client.out = Thrown(client.lastError[1])
    /\ client.pc = "done" /\ client.out.kind = "err" /\ client.calls > 0
          => /\ client.out = Thrown(Intercept(client.failure[1]))
             /\ \/ client.lastError[1].statusCode \in 400..499
                \/ client.calls = client.maxAttempts
    /\ client.pc = "done" /\ client.maxAttempts <= 0
          => /\ client.calls = 0
             /\ client.out.kind = "err"

\* C26: a predictWithRetry(t, maxAttempts) call always terminates, and at
\* every moment of it: at most maxAttempts requests were made, a success
\* ends it with that result, a client error (4xx) ends it with that error,
\* the wait after the k-th failed attempt is 1000 * 2^(k-1) ms and happens
\* only when another attempt follows, the last failed attempt's error is
\* the one thrown, and with maxAttempts <= 0 it makes no request and fails.
C26_RetryTerminatesWithinBound ==
    /\ []RetryAsStated
    /\ (client.pc # "idle") ~> (client.pc = "done")

\* four attempts all answered 503: three waits of 1000, 2000 and 4000 ms,
\* then the last error is thrown
C26_Witness ==
    /\ client.pc = "done"
    /\ client.maxAttempts = MaxAttempts
    /\ client.calls = 4
    /\ client.slept = <<1000, 2000, 4000>>
    /\ client.out = Thrown(ApiError("Server error. Please try again later.", 503))

-----------------------------------------------------------------------------
(* predict with the cache switched off *)

\* the step belongs to a predict call made with useCache = false
UncachedStep ==
    /\ EngineStep
    /\ ev'.op \in {"predict", "predictBatch"}
    /\ ~ev'.options.useCache

\* the cache is neither read (no expired entry deleted) nor written
CacheUntouchedWhenUncached ==
    [][UncachedStep => cache' = cache]_vars

\* C27: a predict call with useCache = false never reads or writes the
\* cache and changes neither cacheHits nor cacheMisses.
C27_UncachedCallLeavesCacheAndCounters ==
    [][UncachedStep
          => /\ cache' = cache
             /\ stats'.cacheHits = stats.cacheHits
             /\ stats'.cacheMisses = stats.cacheMisses]_vars

\* the first predict call of a loaded engine, made with useCache = false,
\* has reached the model: one miss is counted
C27_Witness ==
    /\ ev.op = "predict"
    /\ ev.phase = "call"
    /\ ~ev.options.useCache
    /\ ev.out = Pending
    /\ cache = <<>>
    /\ stats.cacheHits = 0
    /\ stats.cacheMisses = 1

-----------------------------------------------------------------------------
(* dispose and the cache *)

\* whenever the engine is not loaded its cache is empty
UnloadedEngineHasEmptyCache == ~isLoaded => cache = <<>>

\* call slot p holds a predict call that was awaiting the model when dispose
\* ran, and the call settles in this step
SettlesAfterDispose(p) ==
    /\ pc[p] \in {"predict", "batchRun"}
    /\ frame[p].disposed
    /\ pc'[p] # pc[p]

\* C28: whenever the engine is not loaded its cache is empty, and a predict
\* call that was awaiting the model when dispose ran inserts no entry into
\* the cache after the dispose.
C28_NoEntryAfterDispose ==
    [][EngineStep
          => /\ UnloadedEngineHasEmptyCache'
             /\ \A p \in Procs : SettlesAfterDispose(p) => cache' = cache]_vars

\* a predict call was awaiting the model when dispose emptied the cache;
\* the model was loaded again before the call settled, and the call has
\* put its result into the cache
C28_Witness ==
    /\ ev.op = "predict"
    /\ ev.phase = "settle"
    /\ ev.out.kind = "ok"
    /\ ev.prev = <<>>
    /\ creates = 2
    /\ session = 2
    /\ nCalls = 3
    /\ Len(cache) = 1
    /\ stats.totalPredictions = PreFill + 1

-----------------------------------------------------------------------------
(* concurrent loads.  initializeModel and quickPredict call loadModel when   *)
(* isLoaded() is false, so each of their calls is a loadModel call here.     *)

\* the calls waiting at `await ort.InferenceSession.create(...)`
LoadsInProgress == {p \in Procs : pc[p] = "load"}

\* a loadModel call on a loaded engine creates no session
LoadedEngineLoadsNoMore ==
    [][EngineStep /\ isModelLoaded => creates' = creates]_vars

\* C29: the model is loaded only once: a call arriving while a load is in
\* progress does not start a second load, so at most one load is in
\* progress at any time and at most one session is created for concurrent
\* calls; on a loaded engine no session is created.
C29_AtMostOneLoadInProgress ==
    [][EngineStep
          => /\ LoadsInProgress # {} => creates' = creates
             /\ isModelLoaded => creates' = creates
             /\ Cardinality(LoadsInProgress') <= 1]_vars

\* two loadModel calls made on a new engine before either create() settled:
\* two sessions are being created
C29_Witness ==
    /\ LoadsInProgress = Procs
    /\ creates = 2
    /\ frame[1].attempt = 1
    /\ frame[2].attempt = 2
    /\ ~isModelLoaded
    /\ nCalls = 2

-----------------------------------------------------------------------------
(* The store's stats against its history *)

RECURSIVE SumOver(_, _)
\* the sum of the counts of riskDistribution over the keys of `levels`
SumOver(riskDistribution, levels) ==
    IF levels = {} THEN 0
    ELSE LET level == CHOOSE l \in levels : TRUE
         IN  riskDistribution[level].v + SumOver(riskDistribution, levels \ {level})

\* every count of riskDistribution is a non-negative integer, and the counts
\* sum to total
DistributionCounts(riskDistribution, total) ==
    /\ \A level \in DOMAIN riskDistribution :
          /\ IsFiniteNum(riskDistribution[level])
          /\ riskDistribution[level].v >= 0
    /\ SumOver(riskDistribution, DOMAIN riskDistribution) = total

\* stats is consistent with history
StatsConsistent(s) ==
    /\ s.stats.totalPredictions = Len(s.history)
    /\ s.stats.fraudDetected + s.stats.normalDetected = s.stats.totalPredictions
    /\ DistributionCounts(s.stats.riskDistribution, s.stats.totalPredictions)

\* the part of the consistency that does not concern riskDistribution
TotalsConsistent ==
    /\ store.stats.totalPredictions = Len(store.history)
    /\ store.stats.fraudDetected + store.stats.normalDetected = store.stats.totalPredictions
    /\ store.stats.fraudDetected =
          Cardinality({i \in DOMAIN store.history :
                          store.history[i].result.prediction = "Fraud"})

\* C30: after every action of the prediction store, totalPredictions is the
\* length of the history, fraudDetected + normalDetected is totalPredictions,
\* and the riskDistribution counts are non-negative integers that sum to
\* totalPredictions, whichever of the five RiskLevel values the results carry.
C30_StatsConsistentWithHistory == StatsConsistent(store)

\* one result with risk level VERY_HIGH was added: riskDistribution has a
\* VERY_HIGH entry that is NaN, and Low, Medium and High are 0
C30_Witness ==
    /\ Len(store.history) = 1
    /\ store.history[1].result.risk_level = "VERY_HIGH"
    /\ store.stats.totalPredictions = 1
    /\ store.stats.fraudDetected = 1
    /\ "VERY_HIGH" \in DOMAIN store.stats.riskDistribution
    /\ store.stats.riskDistribution["VERY_HIGH"] = NaN
    /\ store.stats.riskDistribution["High"] = Num(0)

=============================================================================
